---- MODULE Spec2Model ----
(***************************************************************************)
(* A model of dagflowjs (src/src/index.ts): the DagEngine registry, the    *)
(* default planner (Kahn's algorithm with batching), the batch loop of     *)
(* execute, the per-node lifecycle of runNode/withTimeout and the block    *)
(* propagation of blockDependents.                                         *)
(*                                                                         *)
(* Node identifiers are the integers 1..MaxNodes.  A callback of a node    *)
(* (shouldRun, validate, execute, cleanup) is user code: the model records *)
(* that it was invoked and lets it return any of its possible outcomes.    *)
(***************************************************************************)
EXTENDS Integers, Sequences, FiniteSets, TLC

VARIABLES
    \* DagEngine fields
    nodes,          \* this.nodes: the registered definitions, in insertion order
    nodesArray,     \* this.nodesArray
    executionPlan,  \* this.executionPlan: a DagPlan or None
    returned,       \* what the last addNode/plan call returned or threw
    \* locals of execute
    phase,          \* "idle" | "running" | "done"
    ctx,            \* let ctx
    metrics,        \* const metrics
    completed,      \* const completed
    failed,         \* const failed
    blocked,        \* const blocked
    batchIdx,       \* position of the for loop over executionPlan.batches
    runnable,       \* const runnable of the batch being awaited
    settled,        \* per node: how its runNode promise settled (None: not settled)
    result,         \* the DagResult execute returned (None: not returned)
    \* locals of runNode / withTimeout, per node
    pc,             \* the await the node's runNode is suspended at
    attempts,       \* let attempts
    lastError,      \* let lastError
    pending,        \* the return value or exception the finally block is holding
    working,        \* work items (node, attempt) whose execute promise has not settled
    aborted,        \* AbortControllers (node, attempt) whose abort() was called
    nodeCtx,        \* runNode's parameter ctx, for the nodes runNode was called for
    \* history
    calls,          \* per node: how often each callback was invoked
    gatedOff,       \* the nodes whose shouldRun returned false
    invalid,        \* the nodes whose validate returned false
    failures,       \* per node: how many attempts of its work item failed
    blockedBy,      \* per node: the node whose outcome made execute block it
    abortedBy,      \* the node whose failure made execute throw (0: none)
    slept,          \* per node: the arguments of its sleep calls, in order
    observed,       \* per node: the contexts its callbacks were invoked with
    overtook,       \* the nodes that settled before a node listed earlier in their batch
    \* the caller of execute
    callerContext,  \* the object the caller passed to execute as initial, as the caller sees it
    shared,         \* ctx is that very object, not one execute made
    otherRun        \* the locals of the caller's other call of execute, while this one runs

engineVars == <<nodes, nodesArray, executionPlan, returned>>
executeVars == <<phase, ctx, metrics, completed, failed, blocked, batchIdx, runnable, settled, result>>
nodeVars == <<pc, attempts, lastError, pending, working, aborted, nodeCtx>>
histVars == <<calls, gatedOff, invalid, failures, blockedBy, abortedBy, slept, observed, overtook>>
callerVars == <<callerContext, shared, otherRun>>
vars == <<engineVars, executeVars, nodeVars, histVars, callerVars>>

\* The locals of one call of execute, of its runNode calls and what is
\* recorded of it: everything but the fields of the engine.
Locals ==
    [phase |-> phase, ctx |-> ctx, metrics |-> metrics, completed |-> completed,
     failed |-> failed, blocked |-> blocked, batchIdx |-> batchIdx,
     runnable |-> runnable, settled |-> settled, result |-> result,
     pc |-> pc, attempts |-> attempts, lastError |-> lastError, pending |-> pending,
     working |-> working, aborted |-> aborted, nodeCtx |-> nodeCtx,
     calls |-> calls, gatedOff |-> gatedOff, invalid |-> invalid,
     failures |-> failures, blockedBy |-> blockedBy, abortedBy |-> abortedBy,
     slept |-> slept, observed |-> observed, overtook |-> overtook,
     callerContext |-> callerContext, shared |-> shared]

----------------------------------------------------------------------------
\* Bounds of the model

\* The largest number of nodes registered in one engine.
MaxNodes == 3

\* The largest maxRetries a node is configured with.
MaxRetries == 1

\* The largest maxRetries of a node without timeout in the runs that check the
\* attempt loop on its own.
MaxBackoffRetries == 2

\* The number of top-level fields of the contexts mergeContext is checked on.
MaxFields == 2

\* The longest dependsOn list given to the planner on its own.
MaxDeps == 2

----------------------------------------------------------------------------
\* Values

\* undefined / null: a record no other value of the model has the fields of.
\* An optional field of a record that is absent is simply not in its DOMAIN.
None == [none |-> TRUE]

Ids == 1..MaxNodes

\* Identifiers a dependsOn list may name: the registrable ones and one that is
\* never registered.
DepIds == 0..MaxNodes

Range(s) == {s[i] : i \in 1..Len(s)}

\* Sequences over S of length at most n.
RECURSIVE SeqsUpTo(_, _)
SeqsUpTo(S, n) ==
    IF n = 0 THEN {<<>>}
    ELSE LET shorter == SeqsUpTo(S, n - 1)
         IN shorter \cup {Append(s, x) : s \in {t \in shorter : Len(t) = n - 1}, x \in S}

\* The elements of a set of integers in increasing order.
RECURSIVE SortedSeq(_)
SortedSeq(S) ==
    IF S = {} THEN <<>>
    ELSE LET m == CHOOSE x \in S : \A y \in S : x <= y
         IN <<m>> \o SortedSeq(S \ {m})

----------------------------------------------------------------------------
\* type ErrorStrategy
ErrorStrategy == {"fail", "skip", "skip-dependents"}

\* type DagNodeStatus
DagNodeStatus == {"success", "failed", "skipped", "blocked"}

\* The default of retryDelayMs.
DefaultRetryDelayMs == 500

\* durationMs: 0 as written by the code, or Date.now() - start, a duration the
\* model does not measure.
ZeroMs == "0"
Elapsed == "Date.now() - start"

\* A record without fields: a config in which nothing is set.
EmptyRecord == [x \in {} |-> TRUE]

\* interface DagNode.  dependsOn is optional (present or not in the DOMAIN);
\* config is a DagNodeConfig holding only the fields that are set; shouldRun,
\* validate and cleanup say whether the node has the optional callback.
DagNode(id, config, shouldRun, validate, cleanup) ==
    [id |-> id, config |-> config,
     shouldRun |-> shouldRun, validate |-> validate, cleanup |-> cleanup]

DagNodeDepending(id, dependsOn, config, shouldRun, validate, cleanup) ==
    [id |-> id, dependsOn |-> dependsOn, config |-> config,
     shouldRun |-> shouldRun, validate |-> validate, cleanup |-> cleanup]

\* node.dependsOn ?? []
DependsOn(node) == IF "dependsOn" \in DOMAIN node THEN node.dependsOn ELSE <<>>

\* Errors.  An Error is a record; its message is the record itself.
DuplicateNodeError(id) == [name |-> "Duplicate node id", id |-> id]
MissingDependencyError(id, dep) == [name |-> "depends on missing node", id |-> id, dep |-> dep]
SelfDependencyError(id) == [name |-> "cannot depend on itself", id |-> id]
\* CycleDetectedError with a slip: only the first of the nodes is named.
CycleDetectedErrorFirstOnly(cycle) ==
    [name |-> "Cycle detected", cycle |-> IF cycle = <<>> THEN <<>> ELSE <<Head(cycle)>>]
CycleDetectedError(cycle) == [name |-> "Cycle detected", cycle |-> cycle]
SkipSuccessors(nodeId) == [name |-> "SkipSuccessors", nodeId |-> nodeId]
TimeoutError(id) == [name |-> "timed out", id |-> id]
\* What user code raises: the callback, the node and the attempt it was raised in.
UserError(callback, id, attempt) ==
    [name |-> "user", callback |-> callback, id |-> id, attempt |-> attempt]

----------------------------------------------------------------------------
\* defaultPlanner

\* The ids of a node list.
IdsOf(ns) == {ns[i].id : i \in 1..Len(ns)}

\* "init": the first id that is met a second time (0: there is none).
FirstDuplicate(ns) ==
    LET dups == {j \in 1..Len(ns) : \E i \in 1..(j - 1) : ns[i].id = ns[j].id}
    IN IF dups = {} THEN 0
       ELSE ns[CHOOSE j \in dups : \A k \in dups : j <= k].id

\* BuildGraph with a slip: the in-degree of a node with dependencies is set to
\* 1 instead of counted.
RECURSIVE BuildGraphFlatDegree(_, _, _, _, _)
BuildGraphFlatDegree(ns, i, j, g, deg) ==
    IF i > Len(ns) THEN [graph |-> g, indegree |-> deg]
    ELSE LET node == ns[i]
             deps == DependsOn(node)
         IN IF j > Len(deps) THEN BuildGraphFlatDegree(ns, i + 1, 1, g, deg)
            ELSE LET dep == deps[j]
                 IN IF dep \notin DOMAIN g
                    THEN [thrown |-> MissingDependencyError(node.id, dep)]
                    ELSE IF dep = node.id
                    THEN [thrown |-> SelfDependencyError(node.id)]
                    ELSE BuildGraphFlatDegree(ns, i, j + 1,
                            [g EXCEPT ![dep] = IF node.id \in Range(@) THEN @ ELSE Append(@, node.id)],
                            [deg EXCEPT ![node.id] = 1])

\* "build graph": one step of the double loop, at node i and dependency j.
\* g maps an id to its dependents in insertion order (a Set), deg is indegree.
RECURSIVE BuildGraph(_, _, _, _, _)
BuildGraph(ns, i, j, g, deg) ==
    IF i > Len(ns) THEN [graph |-> g, indegree |-> deg]
    ELSE LET node == ns[i]
             deps == DependsOn(node)
         IN IF j > Len(deps) THEN BuildGraph(ns, i + 1, 1, g, deg)
            ELSE LET dep == deps[j]
                 IN IF dep \notin DOMAIN g
                    THEN [thrown |-> MissingDependencyError(node.id, dep)]
                    ELSE IF dep = node.id
                    THEN [thrown |-> SelfDependencyError(node.id)]
                    ELSE BuildGraph(ns, i, j + 1,
                            [g EXCEPT ![dep] = IF node.id \in Range(@) THEN @ ELSE Append(@, node.id)],
                            [deg EXCEPT ![node.id] = @ + 1])

\* The loop over graph.get(id): decrement the in-degree of each dependent and
\* queue the ones that reach zero.
RECURSIVE ReleaseDependents(_, _, _, _)
ReleaseDependents(nexts, k, deg, queue) ==
    IF k > Len(nexts) THEN [indegree |-> deg, queue |-> queue]
    ELSE LET next == nexts[k]
             deg2 == [deg EXCEPT ![next] = @ - 1]
         IN ReleaseDependents(nexts, k + 1, deg2,
                IF deg2[next] = 0 THEN Append(queue, next) ELSE queue)

\* TakeBatch with a slip: the loop runs until the queue is empty instead of
\* batchSize times, so what a batch releases joins the batch.
RECURSIVE TakeBatchGreedy(_, _, _, _, _, _)
TakeBatchGreedy(g, n, deg, queue, order, batch) ==
    IF queue = <<>> THEN [indegree |-> deg, queue |-> queue, order |-> order, batch |-> batch]
    ELSE LET id == Head(queue)
             rel == ReleaseDependents(g[id], 1, deg, Tail(queue))
         IN TakeBatchGreedy(g, n, rel.indegree, rel.queue, Append(order, id), Append(batch, id))

\* The inner for loop: take batchSize ids off the queue into one batch.
RECURSIVE TakeBatch(_, _, _, _, _, _)
TakeBatch(g, n, deg, queue, order, batch) ==
    IF n = 0 THEN [indegree |-> deg, queue |-> queue, order |-> order, batch |-> batch]
    ELSE LET id == Head(queue)
             rel == ReleaseDependents(g[id], 1, deg, Tail(queue))
         IN TakeBatch(g, n - 1, rel.indegree, rel.queue, Append(order, id), Append(batch, id))

\* Kahn with a slip: each round takes one id off the queue, not the whole queue.
RECURSIVE KahnOneAtATime(_, _, _, _, _)
KahnOneAtATime(g, deg, queue, order, batches) ==
    IF queue = <<>> THEN [indegree |-> deg, order |-> order, batches |-> batches]
    ELSE LET t == TakeBatch(g, 1, deg, queue, order, <<>>)
         IN KahnOneAtATime(g, t.indegree, t.queue, t.order, Append(batches, t.batch))

\* "kahn with batching": the while loop.
RECURSIVE Kahn(_, _, _, _, _)
Kahn(g, deg, queue, order, batches) ==
    IF queue = <<>> THEN [indegree |-> deg, order |-> order, batches |-> batches]
    ELSE LET t == TakeBatch(g, Len(queue), deg, queue, order, <<>>)
         IN Kahn(g, t.indegree, t.queue, t.order, Append(batches, t.batch))

\* The ids of ns from position i on, in order, that lie in S.
RECURSIVE FilterIds(_, _, _)
FilterIds(ns, i, S) ==
    IF i > Len(ns) THEN <<>>
    ELSE (IF ns[i].id \in S THEN <<ns[i].id>> ELSE <<>>) \o FilterIds(ns, i + 1, S)

\* function defaultPlanner: the DagPlan it returns, or [thrown |-> e] when it
\* throws e.
defaultPlanner(ns) ==
    IF FirstDuplicate(ns) # 0
    THEN [thrown |-> DuplicateNodeError(FirstDuplicate(ns))]
    ELSE LET built == BuildGraph(ns, 1, 1, [id \in IdsOf(ns) |-> <<>>], [id \in IdsOf(ns) |-> 0])
         IN IF "thrown" \in DOMAIN built THEN built
            ELSE LET zero == {id \in IdsOf(ns) : built.indegree[id] = 0}
                     k == Kahn(built.graph, built.indegree, FilterIds(ns, 1, zero), <<>>, <<>>)
                     left == {id \in IdsOf(ns) : k.indegree[id] > 0}
                 IN IF Len(k.order) # Len(ns)
                    THEN [thrown |-> CycleDetectedError(FilterIds(ns, 1, left))]
                    ELSE [order |-> k.order, batches |-> k.batches]

\* A call that threw e / that returned v.
Threw(r) == "thrown" \in DOMAIN r

----------------------------------------------------------------------------
\* DagEngine: the registry and the cached plan

\* this.nodes.has(id)
Has(id) == id \in IdsOf(nodes)

\* this.nodes.get(id)
Get(id) == nodes[CHOOSE i \in 1..Len(nodes) : nodes[i].id = id]

\* this.planner: the constructor's planner ?? defaultPlanner; the model's engines
\* are built without a planner of their own.
planner(ns) == defaultPlanner(ns)

\* addNode with a slip: the cached plan survives the registration of a node.
addNodeKeepingPlan(node) ==
    /\ phase = "idle"
    /\ IF Has(node.id)
       THEN /\ returned' = [op |-> "addNode", thrown |-> DuplicateNodeError(node.id)]
            /\ UNCHANGED <<nodes, nodesArray, executionPlan>>
       ELSE /\ nodes' = Append(nodes, node)
            /\ nodesArray' = Append(nodesArray, node)
            /\ returned' = [op |-> "addNode", this |-> TRUE]
            /\ UNCHANGED executionPlan
    /\ UNCHANGED <<executeVars, nodeVars, histVars, callerVars>>

\* addNode with a slip: a registered id throws, but only after the plan cache
\* was dropped and the definition stored under the id was replaced.
addNodeReplacing(node) ==
    /\ phase = "idle"
    /\ IF Has(node.id)
       THEN /\ returned' = [op |-> "addNode", thrown |-> DuplicateNodeError(node.id)]
            /\ nodes' = [i \in 1..Len(nodes) |->
                            IF nodes[i].id = node.id THEN node ELSE nodes[i]]
            /\ executionPlan' = None
            /\ UNCHANGED nodesArray
       ELSE /\ nodes' = Append(nodes, node)
            /\ nodesArray' = Append(nodesArray, node)
            /\ executionPlan' = None
            /\ returned' = [op |-> "addNode", this |-> TRUE]
    /\ UNCHANGED <<executeVars, nodeVars, histVars, callerVars>>

\* addNode(node): throws on a registered id, else registers the node, drops the
\* cached plan and returns this.
addNode(node) ==
    /\ phase = "idle"
    /\ IF Has(node.id)
       THEN /\ returned' = [op |-> "addNode", thrown |-> DuplicateNodeError(node.id)]
            /\ UNCHANGED <<nodes, nodesArray, executionPlan>>
       ELSE /\ nodes' = Append(nodes, node)
            /\ nodesArray' = Append(nodesArray, node)
            /\ executionPlan' = None
            /\ returned' = [op |-> "addNode", this |-> TRUE]
    /\ UNCHANGED <<executeVars, nodeVars, histVars, callerVars>>

\* plan(): the cached plan, or the planner's plan of nodesArray, which it caches;
\* what the planner throws passes through and nothing is cached.
plan ==
    /\ phase = "idle"
    /\ IF executionPlan # None
       THEN /\ returned' = [op |-> "plan", value |-> executionPlan]
            /\ UNCHANGED executionPlan
       ELSE LET p == planner(nodesArray)
            IN IF Threw(p)
               THEN /\ returned' = [op |-> "plan", thrown |-> p.thrown]
                    /\ UNCHANGED executionPlan
               ELSE /\ executionPlan' = p
                    /\ returned' = [op |-> "plan", value |-> p]
    /\ UNCHANGED <<nodes, nodesArray, executeVars, nodeVars, histVars, callerVars>>

----------------------------------------------------------------------------
\* The context.  A context is a function from field names to values; the
\* fields are 0 (written by every work item) and one field per node id.

\* The initial context the caller passes to execute.
InitialContext == [f \in {0} |-> 0]

\* A field value that is a function.  Field values that are data are naturals.
Fn == -1

\* structuredClone with a slip: it hands back the object it was given.
structuredCloneSameObject(value) == [value |-> value, same |-> TRUE]

\* What structuredClone throws for a value it cannot copy.
DataCloneError == [name |-> "DataCloneError"]

\* structuredClone(value): a copy of value that shares nothing with it; a value
\* that holds a function cannot be copied.  The copy has the fields and the
\* data of value and is another object (same: it is the object it was given).
structuredClone(value) ==
    IF \E f \in DOMAIN value : value[f] = Fn
    THEN [thrown |-> DataCloneError]
    ELSE [value |-> value, same |-> FALSE]

\* The value a work item assigns to a field of the context it was given.
WrittenInPlace == 9

\* The initial contexts a caller passes: plain data, or a field holding a function.
InitialContexts == {InitialContext, [f \in {0} |-> Fn]}

\* The patch the work item of node id resolves with: its own field and the
\* field every node writes.
PatchOf(id) == [f \in {0, id} |-> id]

\* {}: what runNode returns for a node its validation skipped.
EmptyPatch == [f \in {} |-> 0]

\* mergeContext with a slip: a field both have is merged field by field.
mergeContextDeep(base, patch) ==
    [f \in DOMAIN base \cup DOMAIN patch |->
        IF f \in DOMAIN patch /\ f \in DOMAIN base
        THEN [k \in DOMAIN base[f] \cup DOMAIN patch[f] |->
                IF k \in DOMAIN patch[f] THEN patch[f][k] ELSE base[f][k]]
        ELSE IF f \in DOMAIN patch THEN patch[f] ELSE base[f]]

\* function mergeContext: structuredClone({ ...base, ...patch })
mergeContext(base, patch) ==
    [f \in DOMAIN base \cup DOMAIN patch |-> IF f \in DOMAIN patch THEN patch[f] ELSE base[f]]

----------------------------------------------------------------------------
\* Configuration

\* OnError with a slip: `skip` is taken for `skip-dependents`.
OnErrorSkipBlocks(node) ==
    IF "onError" \in DOMAIN node.config
    THEN (IF node.config.onError = "skip" THEN "skip-dependents" ELSE node.config.onError)
    ELSE "fail"

\* node.config?.onError ?? "fail"
OnError(node) == IF "onError" \in DOMAIN node.config THEN node.config.onError ELSE "fail"

\* node.config?.maxRetries ?? 0
Retries(node) == IF "maxRetries" \in DOMAIN node.config THEN node.config.maxRetries ELSE 0

\* node.config?.retryDelayMs ?? 500
Delay(node) ==
    IF "retryDelayMs" \in DOMAIN node.config THEN node.config.retryDelayMs ELSE DefaultRetryDelayMs

\* HasTimeout with a slip: the configured timeout is ignored, so that every
\* work item runs without a deadline.
HasTimeoutIgnored(node) == FALSE

\* withTimeout's test of node.config?.timeoutMs: set and not 0.
HasTimeout(node) == "timeoutMs" \in DOMAIN node.config /\ node.config.timeoutMs # 0

----------------------------------------------------------------------------
\* Metrics

\* const metrics at the start of execute (the timestamps are not modelled).
NewMetrics ==
    [totalNodes |-> 0, successfulNodes |-> 0, failedNodes |-> 0,
     skippedNodes |-> 0, blockedNodes |-> 0, nodes |-> [id \in {} |-> None]]

\* metrics.nodes[id] = rec
SetNode(ms, id, rec) == [k \in DOMAIN ms \cup {id} |-> IF k = id THEN rec ELSE ms[k]]

\* The records runNode and blockDependents write.
SkippedRecord == [attempts |-> 0, status |-> "skipped", durationMs |-> ZeroMs]
BlockedRecord == [attempts |-> 0, status |-> "blocked", durationMs |-> ZeroMs]
SuccessRecord(n) == [attempts |-> n, status |-> "success", durationMs |-> Elapsed]
FailedRecord(n, e) == [attempts |-> n, status |-> "failed", durationMs |-> Elapsed, error |-> e]

----------------------------------------------------------------------------
\* blockDependents

\* blockDependents(nodeId, nodes, blocked, metrics), with st = [blocked, metrics]:
\* the loop over nodes from position k on, recursing into each node it blocks.
RECURSIVE blockDependentsFrom(_, _, _, _)
blockDependentsFrom(nodeId, ns, k, st) ==
    IF k > Len(ns) THEN st
    ELSE LET node == ns[k]
         IN IF nodeId \in Range(DependsOn(node)) /\ node.id \notin st.blocked
            THEN LET marked == [blocked |-> st.blocked \cup {node.id},
                                metrics |-> [st.metrics EXCEPT
                                    !.nodes = SetNode(@, node.id, BlockedRecord),
                                    !.blockedNodes = @ + 1]]
                 IN blockDependentsFrom(nodeId, ns, k + 1,
                        blockDependentsFrom(node.id, ns, 1, marked))
            ELSE blockDependentsFrom(nodeId, ns, k + 1, st)

\* blockDependents with a slip: no recursion, only the nodes that declare
\* nodeId are blocked.
blockDirectDependents(nodeId, ns, st) ==
    LET direct == {ns[k].id : k \in {j \in 1..Len(ns) :
                        nodeId \in Range(DependsOn(ns[j])) /\ ns[j].id \notin st.blocked}}
    IN [blocked |-> st.blocked \cup direct,
        metrics |-> [st.metrics EXCEPT
            !.nodes = [k \in DOMAIN st.metrics.nodes \cup direct |->
                        IF k \in direct THEN BlockedRecord ELSE st.metrics.nodes[k]],
            !.blockedNodes = @ + Cardinality(direct)]]

\* blockDependents with a slip: the test !blocked.has(node.id) is missing, so
\* a node reached a second time is marked and counted again.
RECURSIVE blockDependentsRevisitingFrom(_, _, _, _)
blockDependentsRevisitingFrom(nodeId, ns, k, st) ==
    IF k > Len(ns) THEN st
    ELSE LET node == ns[k]
         IN IF nodeId \in Range(DependsOn(node))
            THEN LET marked == [blocked |-> st.blocked \cup {node.id},
                                metrics |-> [st.metrics EXCEPT
                                    !.nodes = SetNode(@, node.id, BlockedRecord),
                                    !.blockedNodes = @ + 1]]
                 IN blockDependentsRevisitingFrom(nodeId, ns, k + 1,
                        blockDependentsRevisitingFrom(node.id, ns, 1, marked))
            ELSE blockDependentsRevisitingFrom(nodeId, ns, k + 1, st)

blockDependentsRevisiting(nodeId, ns, st) == blockDependentsRevisitingFrom(nodeId, ns, 1, st)

blockDependents(nodeId, ns, st) == blockDependentsFrom(nodeId, ns, 1, st)

----------------------------------------------------------------------------
\* runNode and withTimeout: one action per callback outcome

Callbacks == {"shouldRun", "validate", "execute", "cleanup"}

\* Where runNode first suspends once the gate has passed or is absent: the
\* validation if the node has one, else the first attempt of the work item.
AfterGate(node) == IF node.validate THEN "validate" ELSE "execute"

\* Where runNode first suspends: the gate check if the node has one.
FirstAwait(node) == IF node.shouldRun THEN "shouldRun" ELSE AfterGate(node)

\* Where runNode goes when the try block is left: the finally block awaits
\* cleanup if the node has one, else the promise settles.
AfterLoop(node) == IF node.cleanup THEN "cleanup" ELSE "settled"

\* runNode of node n moves to `next`.  Moving to a callback invokes it; moving
\* to "execute" is the head of the attempt loop (attempts++, a fresh
\* AbortController, withTimeout invoking the work item).  w is `working`
\* without what just settled.
Enter(n, next, w) ==
    /\ pc' = [pc EXCEPT ![n] = next]
    /\ calls' = IF next \in Callbacks THEN [calls EXCEPT ![n][next] = @ + 1] ELSE calls
    /\ attempts' = IF next = "execute" THEN [attempts EXCEPT ![n] = @ + 1] ELSE attempts
    /\ working' = IF next = "execute" THEN w \cup {<<n, attempts[n] + 1>>} ELSE w
    /\ observed' = IF next \in Callbacks
                   THEN [observed EXCEPT ![n] = @ \cup {nodeCtx[n]}]
                   ELSE observed
    /\ overtook' = IF /\ next = "settled"
                      /\ \E i, j \in 1..Len(runnable) :
                            i < j /\ runnable[j] = n /\ pc[runnable[i]] # "settled"
                   THEN overtook \cup {n}
                   ELSE overtook

\* The promise of runNode(n) settles with outcome: [patch |-> p] or [err |-> e].
Settle(n, outcome, w) ==
    /\ settled' = [settled EXCEPT ![n] = outcome]
    /\ Enter(n, "settled", w)

\* Conclude with a slip: cleanup is awaited at the end of the try block, so
\* only when the work item succeeded.
ConcludeCleanupOnSuccess(n, outcome, w) ==
    IF AfterLoop(Get(n)) = "cleanup" /\ "patch" \in DOMAIN outcome
    THEN /\ pending' = [pending EXCEPT ![n] = outcome]
         /\ Enter(n, "cleanup", w)
         /\ UNCHANGED settled
    ELSE /\ Settle(n, outcome, w)
         /\ UNCHANGED pending

\* The try block is left with outcome (return patch / throw lastError): the
\* finally block runs.
Conclude(n, outcome, w) ==
    IF AfterLoop(Get(n)) = "cleanup"
    THEN /\ pending' = [pending EXCEPT ![n] = outcome]
         /\ Enter(n, "cleanup", w)
         /\ UNCHANGED settled
    ELSE /\ Settle(n, outcome, w)
         /\ UNCHANGED pending

\* await node.shouldRun(ctx) returns run.
shouldRunReturns(n, run) ==
    /\ pc[n] = "shouldRun"
    /\ IF ~run
       THEN /\ metrics' = [metrics EXCEPT !.nodes = SetNode(@, n, SkippedRecord),
                                           !.skippedNodes = @ + 1]
            /\ Settle(n, [err |-> SkipSuccessors(n)], working)
            /\ gatedOff' = gatedOff \cup {n}
       ELSE /\ Enter(n, AfterGate(Get(n)), working)
            /\ UNCHANGED <<metrics, settled, gatedOff>>
    /\ UNCHANGED <<engineVars, phase, ctx, completed, failed, blocked, batchIdx, runnable, result>>
    /\ UNCHANGED <<lastError, pending, aborted, invalid, failures, blockedBy, abortedBy, slept, nodeCtx, callerVars>>

\* await node.shouldRun(ctx) throws.
shouldRunThrows(n) ==
    /\ pc[n] = "shouldRun"
    /\ Settle(n, [err |-> UserError("shouldRun", n, 0)], working)
    /\ UNCHANGED <<engineVars, phase, ctx, metrics, completed, failed, blocked, batchIdx, runnable, result>>
    /\ UNCHANGED <<lastError, pending, aborted, gatedOff, invalid, failures, blockedBy, abortedBy, slept, nodeCtx, callerVars>>

\* validateReturns with a slip: a failed validation is raised like a failed
\* gate check.
validateReturnsBlocking(n, valid) ==
    /\ pc[n] = "validate"
    /\ IF ~valid
       THEN /\ metrics' = [metrics EXCEPT !.nodes = SetNode(@, n, SkippedRecord),
                                           !.skippedNodes = @ + 1]
            /\ Settle(n, [err |-> SkipSuccessors(n)], working)
            /\ invalid' = invalid \cup {n}
       ELSE /\ Enter(n, "execute", working)
            /\ UNCHANGED <<metrics, settled, invalid>>
    /\ UNCHANGED <<engineVars, phase, ctx, completed, failed, blocked, batchIdx, runnable, result>>
    /\ UNCHANGED <<lastError, pending, aborted, gatedOff, failures, blockedBy, abortedBy, slept, nodeCtx, callerVars>>

\* await node.validate(ctx) returns valid.
validateReturns(n, valid) ==
    /\ pc[n] = "validate"
    /\ IF ~valid
       THEN /\ metrics' = [metrics EXCEPT !.nodes = SetNode(@, n, SkippedRecord),
                                           !.skippedNodes = @ + 1]
            /\ Settle(n, [patch |-> EmptyPatch], working)
            /\ invalid' = invalid \cup {n}
       ELSE /\ Enter(n, "execute", working)
            /\ UNCHANGED <<metrics, settled, invalid>>
    /\ UNCHANGED <<engineVars, phase, ctx, completed, failed, blocked, batchIdx, runnable, result>>
    /\ UNCHANGED <<lastError, pending, aborted, gatedOff, failures, blockedBy, abortedBy, slept, nodeCtx, callerVars>>

\* await node.validate(ctx) throws.
validateThrows(n) ==
    /\ pc[n] = "validate"
    /\ Settle(n, [err |-> UserError("validate", n, 0)], working)
    /\ UNCHANGED <<engineVars, phase, ctx, metrics, completed, failed, blocked, batchIdx, runnable, result>>
    /\ UNCHANGED <<lastError, pending, aborted, gatedOff, invalid, failures, blockedBy, abortedBy, slept, nodeCtx, callerVars>>

\* The work item of the current attempt resolves with its patch: the success
\* record is written and the patch returned through the finally block.
executeResolves(n) ==
    /\ pc[n] = "execute"
    /\ <<n, attempts[n]>> \in working
    /\ metrics' = [metrics EXCEPT !.nodes = SetNode(@, n, SuccessRecord(attempts[n]))]
    /\ Conclude(n, [patch |-> PatchOf(n)], working \ {<<n, attempts[n]>>})
    /\ UNCHANGED <<engineVars, phase, ctx, completed, failed, blocked, batchIdx, runnable, result>>
    /\ UNCHANGED <<lastError, aborted, gatedOff, invalid, failures, blockedBy, abortedBy, slept, nodeCtx, callerVars>>

\* AttemptFailed with a slip: every sleep lasts delay, without the factor 2 ** i.
AttemptFailedFixedDelay(n, err, w) ==
    /\ lastError' = [lastError EXCEPT ![n] = err]
    /\ failures' = [failures EXCEPT ![n] = @ + 1]
    /\ IF attempts[n] - 1 < Retries(Get(n))
       THEN /\ slept' = [slept EXCEPT ![n] = Append(@, Delay(Get(n)))]
            /\ Enter(n, "sleep", w)
            /\ UNCHANGED <<metrics, settled, pending>>
       ELSE /\ metrics' = [metrics EXCEPT !.nodes = SetNode(@, n, FailedRecord(attempts[n], err))]
            /\ Conclude(n, [err |-> err], w)
            /\ UNCHANGED slept

\* AttemptFailed with a slip: the test for remaining attempts is i + 1 < retries.
AttemptFailedOneShort(n, err, w) ==
    /\ lastError' = [lastError EXCEPT ![n] = err]
    /\ failures' = [failures EXCEPT ![n] = @ + 1]
    /\ IF attempts[n] < Retries(Get(n))
       THEN /\ slept' = [slept EXCEPT ![n] = Append(@, Delay(Get(n)) * 2 ^ (attempts[n] - 1))]
            /\ Enter(n, "sleep", w)
            /\ UNCHANGED <<metrics, settled, pending>>
       ELSE /\ metrics' = [metrics EXCEPT !.nodes = SetNode(@, n, FailedRecord(attempts[n], err))]
            /\ Conclude(n, [err |-> err], w)
            /\ UNCHANGED slept

\* AttemptFailed with a slip: the loop is left without a further attempt when a
\* node of the batch has already failed under the `fail` strategy, as if that
\* failure cancelled the rest of the batch.
AttemptFailedCancelledByAbort(n, err, w) ==
    /\ lastError' = [lastError EXCEPT ![n] = err]
    /\ failures' = [failures EXCEPT ![n] = @ + 1]
    /\ IF /\ attempts[n] - 1 < Retries(Get(n))
          /\ ~\E m \in Range(runnable) \ {n} :
                /\ "err" \in DOMAIN settled[m]
                /\ OnError(Get(m)) = "fail"
       THEN /\ slept' = [slept EXCEPT ![n] = Append(@, Delay(Get(n)) * 2 ^ (attempts[n] - 1))]
            /\ Enter(n, "sleep", w)
            /\ UNCHANGED <<metrics, settled, pending>>
       ELSE /\ metrics' = [metrics EXCEPT !.nodes = SetNode(@, n, FailedRecord(attempts[n], err))]
            /\ Conclude(n, [err |-> err], w)
            /\ UNCHANGED slept

\* The catch block of the attempt loop with err: sleep(delay * 2 ** i) when
\* attempts remain (i < retries, i being attempts - 1), else the loop ends, the failed record is written and
\* lastError is thrown through the finally block.
AttemptFailed(n, err, w) ==
    /\ lastError' = [lastError EXCEPT ![n] = err]
    /\ failures' = [failures EXCEPT ![n] = @ + 1]
    /\ IF attempts[n] - 1 < Retries(Get(n))
       THEN /\ slept' = [slept EXCEPT ![n] = Append(@, Delay(Get(n)) * 2 ^ (attempts[n] - 1))]
            /\ Enter(n, "sleep", w)
            /\ UNCHANGED <<metrics, settled, pending>>
       ELSE /\ metrics' = [metrics EXCEPT !.nodes = SetNode(@, n, FailedRecord(attempts[n], err))]
            /\ Conclude(n, [err |-> err], w)
            /\ UNCHANGED slept

\* executeRejects with a slip: the attempt is taken as failed while its work
\* item goes on executing.
executeRejectsStillWorking(n) ==
    /\ pc[n] = "execute"
    /\ <<n, attempts[n]>> \in working
    /\ AttemptFailed(n, UserError("execute", n, attempts[n]), working)
    /\ UNCHANGED <<engineVars, phase, ctx, completed, failed, blocked, batchIdx, runnable, result>>
    /\ UNCHANGED <<aborted, gatedOff, invalid, blockedBy, abortedBy, nodeCtx, callerVars>>

\* The work item of the current attempt rejects.
executeRejects(n) ==
    /\ pc[n] = "execute"
    /\ <<n, attempts[n]>> \in working
    /\ AttemptFailed(n, UserError("execute", n, attempts[n]), working \ {<<n, attempts[n]>>})
    /\ UNCHANGED <<engineVars, phase, ctx, completed, failed, blocked, batchIdx, runnable, result>>
    /\ UNCHANGED <<aborted, gatedOff, invalid, blockedBy, abortedBy, nodeCtx, callerVars>>

\* timeoutFires with a slip: one AbortController per runNode call, made before
\* the attempt loop, so a timeout aborts the token of every attempt of the node.
timeoutFiresSharedController(n) ==
    /\ pc[n] = "execute"
    /\ HasTimeout(Get(n))
    /\ aborted' = aborted \cup {<<n, a>> : a \in 1..(Retries(Get(n)) + 1)}
    /\ AttemptFailed(n, TimeoutError(n), working)
    /\ UNCHANGED <<engineVars, phase, ctx, completed, failed, blocked, batchIdx, runnable, result>>
    /\ UNCHANGED <<gatedOff, invalid, blockedBy, abortedBy, nodeCtx, callerVars>>

\* withTimeout's timer fires before the work item settled: the attempt's
\* controller is aborted and the race rejects; the work item runs on.
timeoutFires(n) ==
    /\ pc[n] = "execute"
    /\ HasTimeout(Get(n))
    /\ aborted' = aborted \cup {<<n, attempts[n]>>}
    /\ AttemptFailed(n, TimeoutError(n), working)
    /\ UNCHANGED <<engineVars, phase, ctx, completed, failed, blocked, batchIdx, runnable, result>>
    /\ UNCHANGED <<gatedOff, invalid, blockedBy, abortedBy, nodeCtx, callerVars>>

\* abandonedWorkSettles with a slip: the patch of the late work item is merged
\* into the context.
abandonedWorkSettlesMerging(n, a) ==
    /\ <<n, a>> \in working
    /\ <<n, a>> \in aborted
    /\ working' = working \ {<<n, a>>}
    /\ ctx' = mergeContext(ctx, PatchOf(n))
    /\ UNCHANGED <<engineVars, phase, metrics, completed, failed, blocked, batchIdx, runnable, settled, result>>
    /\ UNCHANGED <<pc, attempts, lastError, pending, aborted, nodeCtx, histVars, callerVars>>

\* The work item of an attempt that timed out settles: nobody awaits it.
abandonedWorkSettles(n, a) ==
    /\ <<n, a>> \in working
    /\ <<n, a>> \in aborted
    /\ working' = working \ {<<n, a>>}
    /\ UNCHANGED <<engineVars, executeVars, pc, attempts, lastError, pending, aborted, nodeCtx, histVars, callerVars>>

\* await sleep(delay * 2 ** i) ends: the next attempt starts.
sleepEnds(n) ==
    /\ pc[n] = "sleep"
    /\ Enter(n, "execute", working)
    /\ UNCHANGED <<engineVars, executeVars, lastError, pending, aborted, gatedOff, invalid, failures, blockedBy, abortedBy, slept, nodeCtx, callerVars>>

\* await node.cleanup(ctx) returns: the finally block ends and the held
\* outcome goes through.
cleanupReturns(n) ==
    /\ pc[n] = "cleanup"
    /\ Settle(n, pending[n], working)
    /\ UNCHANGED <<engineVars, phase, ctx, metrics, completed, failed, blocked, batchIdx, runnable, result>>
    /\ UNCHANGED <<lastError, pending, aborted, gatedOff, invalid, failures, blockedBy, abortedBy, slept, nodeCtx, callerVars>>

\* await node.cleanup(ctx) throws: the exception of the finally block replaces
\* the held outcome.
cleanupThrows(n) ==
    /\ pc[n] = "cleanup"
    /\ Settle(n, [err |-> UserError("cleanup", n, attempts[n])], working)
    /\ UNCHANGED <<engineVars, phase, ctx, metrics, completed, failed, blocked, batchIdx, runnable, result>>
    /\ UNCHANGED <<lastError, pending, aborted, gatedOff, invalid, failures, blockedBy, abortedBy, slept, nodeCtx, callerVars>>

----------------------------------------------------------------------------
\* execute

\* await Promise.all(...): every promise of the batch has settled.
AllSettled == \A i \in 1..Len(runnable) : pc[runnable[i]] = "settled"

\* Runnable with a slip: the blocked nodes are not filtered out.
RunnableUnfiltered(batch, blk) == batch

\* Runnable with a slip: the runnable nodes are listed in the reverse of their
\* order in the batch.
RECURSIVE RunnableReversed(_, _)
RunnableReversed(batch, blk) ==
    IF batch = <<>> THEN <<>>
    ELSE RunnableReversed(Tail(batch), blk)
         \o (IF Get(Head(batch)).id \notin blk THEN <<Head(batch)>> ELSE <<>>)

\* batch.map(id => this.nodes.get(id)!).filter(n => !blocked.has(n.id)), as ids.
RECURSIVE Runnable(_, _)
Runnable(batch, blk) ==
    IF batch = <<>> THEN <<>>
    ELSE (IF Get(Head(batch)).id \notin blk THEN <<Head(batch)>> ELSE <<>>)
         \o Runnable(Tail(batch), blk)

\* IsSkipSuccessors with a slip: the instanceof test never succeeds.
IsSkipSuccessorsNever(err) == FALSE

\* r.err instanceof SkipSuccessors
IsSkipSuccessors(err) == err.name = "SkipSuccessors"

\* The nodes a blockDependents call newly blocked are charged to node id.
ChargeTo(id, before, after, by) ==
    [n \in Ids |-> IF n \in after \ before THEN id ELSE by[n]]

\* The loop "for (const r of results)" from position i on.  st holds the
\* locals it updates: ctx, completed, failed, blocked, metrics; thrown is the
\* error it throws (None: it ran to its end); blockedBy and abortedBy are
\* history; shared tells whether ctx is still the object the caller passed,
\* which it is not once mergeContext has made a new one.
RECURSIVE ProcessResults(_, _, _)
ProcessResults(rs, i, st) ==
    IF i > Len(rs) THEN st
    ELSE LET id == rs[i]
             r == settled[id]
         IN IF "patch" \in DOMAIN r
            THEN ProcessResults(rs, i + 1,
                    [st EXCEPT !.ctx = mergeContext(@, r.patch),
                               !.shared = FALSE,
                               !.completed = @ \cup {id},
                               !.metrics.successfulNodes = @ + 1])
            ELSE IF IsSkipSuccessors(r.err)
            THEN LET b == blockDependents(id, nodes, [blocked |-> st.blocked, metrics |-> st.metrics])
                 IN ProcessResults(rs, i + 1,
                        [st EXCEPT !.completed = @ \cup {id},
                                   !.blocked = b.blocked,
                                   !.metrics = b.metrics,
                                   !.blockedBy = ChargeTo(id, st.blocked, b.blocked, @)])
            ELSE LET st1 == [st EXCEPT !.failed = @ \cup {id}, !.metrics.failedNodes = @ + 1]
                     strategy == OnError(Get(id))
                 IN IF strategy = "fail"
                    THEN [st1 EXCEPT !.thrown = r.err, !.abortedBy = id]
                    ELSE IF strategy = "skip-dependents"
                    THEN LET b == blockDependents(id, nodes,
                                      [blocked |-> st1.blocked, metrics |-> st1.metrics])
                         IN ProcessResults(rs, i + 1,
                                [st1 EXCEPT !.blocked = b.blocked,
                                            !.metrics = b.metrics,
                                            !.blockedBy = ChargeTo(id, st1.blocked, b.blocked, @)])
                    ELSE ProcessResults(rs, i + 1, st1)

\* The locals of execute take the values of st.
Assign(st) ==
    /\ ctx' = st.ctx
    /\ completed' = st.completed
    /\ failed' = st.failed
    /\ blocked' = st.blocked
    /\ metrics' = st.metrics
    /\ blockedBy' = st.blockedBy
    /\ abortedBy' = st.abortedBy
    /\ shared' = st.shared

\* EnterBatch with a slip: runNode is given the context as it was before the
\* results of the batch just awaited were merged.
EnterBatchStaleContext(batches, k, st) ==
    IF k > Len(batches)
    THEN /\ phase' = "done"
         /\ result' = [success |-> TRUE, context |-> st.ctx, metrics |-> st.metrics]
         /\ UNCHANGED <<batchIdx, runnable, pc, attempts, working, calls, nodeCtx, observed>>
    ELSE LET run == Runnable(batches[k], st.blocked)
             first(n) == FirstAwait(Get(n))
         IN /\ phase' = "running"
            /\ batchIdx' = k
            /\ runnable' = run
            /\ pc' = [n \in Ids |-> IF n \in Range(run) THEN first(n) ELSE pc[n]]
            /\ calls' = [n \in Ids |-> IF n \in Range(run)
                                       THEN [calls[n] EXCEPT ![first(n)] = @ + 1]
                                       ELSE calls[n]]
            /\ attempts' = [n \in Ids |-> IF n \in Range(run) /\ first(n) = "execute"
                                          THEN attempts[n] + 1 ELSE attempts[n]]
            /\ working' = working \cup {<<n, attempts[n] + 1>> : n \in {m \in Range(run) : first(m) = "execute"}}
            /\ nodeCtx' = [n \in DOMAIN nodeCtx \cup Range(run) |->
                            IF n \in Range(run) THEN ctx ELSE nodeCtx[n]]
            /\ observed' = [n \in Ids |-> IF n \in Range(run)
                                          THEN observed[n] \cup {ctx}
                                          ELSE observed[n]]
            /\ UNCHANGED result

\* The head of "for (const batch of this.executionPlan.batches)" at batch k of
\* batches: past the last batch execute returns success; else every runnable
\* node's runNode is called, each running up to its first await, and execute
\* suspends at await Promise.all.
EnterBatch(batches, k, st) ==
    IF k > Len(batches)
    THEN /\ phase' = "done"
         /\ result' = [success |-> TRUE, context |-> st.ctx, metrics |-> st.metrics]
         /\ UNCHANGED <<batchIdx, runnable, pc, attempts, working, calls, nodeCtx, observed>>
    ELSE LET run == Runnable(batches[k], st.blocked)
             first(n) == FirstAwait(Get(n))
         IN /\ phase' = "running"
            /\ batchIdx' = k
            /\ runnable' = run
            /\ pc' = [n \in Ids |-> IF n \in Range(run) THEN first(n) ELSE pc[n]]
            /\ calls' = [n \in Ids |-> IF n \in Range(run)
                                       THEN [calls[n] EXCEPT ![first(n)] = @ + 1]
                                       ELSE calls[n]]
            /\ attempts' = [n \in Ids |-> IF n \in Range(run) /\ first(n) = "execute"
                                          THEN attempts[n] + 1 ELSE attempts[n]]
            /\ working' = working \cup {<<n, attempts[n] + 1>> : n \in {m \in Range(run) : first(m) = "execute"}}
            /\ nodeCtx' = [n \in DOMAIN nodeCtx \cup Range(run) |->
                            IF n \in Range(run) THEN st.ctx ELSE nodeCtx[n]]
            /\ observed' = [n \in Ids |-> IF n \in Range(run)
                                          THEN observed[n] \cup {st.ctx}
                                          ELSE observed[n]]
            /\ UNCHANGED result

\* ReturnFailure with a slip: the result is returned without the error.
ReturnFailureWithoutError(st) ==
    /\ phase' = "done"
    /\ result' = [success |-> FALSE, context |-> st.ctx, metrics |-> st.metrics]
    /\ UNCHANGED <<batchIdx, runnable, pc, attempts, working, calls, nodeCtx, observed>>

\* The catch block of execute: it returns the failure.
ReturnFailure(st) ==
    /\ phase' = "done"
    /\ result' = [success |-> FALSE, context |-> st.ctx, metrics |-> st.metrics, error |-> st.thrown]
    /\ UNCHANGED <<batchIdx, runnable, pc, attempts, working, calls, nodeCtx, observed>>

\* execute(initial), from the call to its first await (or to its return).  The
\* clone of the initial context is taken before the try block, so what
\* structuredClone throws rejects the promise of execute.
execute(initial) ==
    /\ phase = "idle"
    /\ callerContext' = initial
    /\ LET cloned == structuredClone(initial)
       IN IF Threw(cloned)
          THEN /\ returned' = [op |-> "execute", rejected |-> cloned.thrown]
               /\ UNCHANGED <<executionPlan, executeVars, pc, attempts, working, nodeCtx>>
               /\ UNCHANGED <<calls, observed, blockedBy, abortedBy, shared>>
          ELSE /\ returned' = [op |-> "execute", promise |-> TRUE]
               /\ LET st0 == [ctx |-> cloned.value, completed |-> {}, failed |-> {},
                              blocked |-> {}, metrics |-> NewMetrics, thrown |-> None,
                              blockedBy |-> blockedBy, abortedBy |-> abortedBy,
                              shared |-> cloned.same]
                      planned == IF executionPlan # None THEN executionPlan ELSE planner(nodes)
                  IN IF Threw(planned)
                     THEN /\ UNCHANGED executionPlan
                          /\ Assign(st0)
                          /\ ReturnFailure([st0 EXCEPT !.thrown = planned.thrown])
                     ELSE LET st1 == [st0 EXCEPT !.metrics.totalNodes = Len(nodes)]
                          IN /\ executionPlan' = planned
                             /\ Assign(st1)
                             /\ EnterBatch(planned.batches, 1, st1)
    /\ UNCHANGED <<nodes, nodesArray, settled, lastError, pending, aborted, gatedOff, invalid, failures>>
    /\ UNCHANGED <<slept, overtook, otherRun>>

\* await Promise.all resolves: the results of the batch are processed in the
\* order of runnable, then the run is aborted or the next batch entered.
batchSettled ==
    /\ phase = "running"
    /\ AllSettled
    /\ LET st == ProcessResults(runnable, 1,
                    [ctx |-> ctx, completed |-> completed, failed |-> failed,
                     blocked |-> blocked, metrics |-> metrics, thrown |-> None,
                     blockedBy |-> blockedBy, abortedBy |-> abortedBy,
                     shared |-> shared])
       IN /\ Assign(st)
          /\ IF st.thrown # None
             THEN ReturnFailure(st)
             ELSE EnterBatch(executionPlan.batches, batchIdx + 1, st)
    /\ UNCHANGED <<engineVars, settled, lastError, pending, aborted, gatedOff, invalid, failures>>
    /\ UNCHANGED <<slept, overtook, callerContext, otherRun>>

\* The work item of node n, while it runs, assigns a field of the context
\* object it was given.  That object is the ctx of execute, which every node of
\* the batch was given, and it is the caller's object when execute shares it.
workItemWritesContext(n) ==
    /\ phase = "running"
    /\ pc[n] = "execute"
    /\ ctx[0] # WrittenInPlace
    /\ ctx' = [ctx EXCEPT ![0] = WrittenInPlace]
    /\ nodeCtx' = [m \in DOMAIN nodeCtx |->
                     IF m \in Range(runnable) THEN [nodeCtx[m] EXCEPT ![0] = WrittenInPlace]
                     ELSE nodeCtx[m]]
    /\ callerContext' = IF shared THEN [callerContext EXCEPT ![0] = WrittenInPlace]
                        ELSE callerContext
    /\ UNCHANGED <<engineVars, phase, metrics, completed, failed, blocked, batchIdx, runnable, settled, result>>
    /\ UNCHANGED <<pc, attempts, lastError, pending, working, aborted, histVars, shared, otherRun>>

\* resumeOtherRun with a slip: blocked is a field of the engine, which the two
\* calls of execute share, and not a local of each call.
resumeOtherRunSharingBlocked ==
    /\ phase # "idle" \/ otherRun.phase # "idle"
    /\ otherRun' = Locals
    /\ phase' = otherRun.phase
    /\ ctx' = otherRun.ctx
    /\ metrics' = otherRun.metrics
    /\ completed' = otherRun.completed
    /\ failed' = otherRun.failed
    /\ blocked' = blocked
    /\ batchIdx' = otherRun.batchIdx
    /\ runnable' = otherRun.runnable
    /\ settled' = otherRun.settled
    /\ result' = otherRun.result
    /\ pc' = otherRun.pc
    /\ attempts' = otherRun.attempts
    /\ lastError' = otherRun.lastError
    /\ pending' = otherRun.pending
    /\ working' = otherRun.working
    /\ aborted' = otherRun.aborted
    /\ nodeCtx' = otherRun.nodeCtx
    /\ calls' = otherRun.calls
    /\ gatedOff' = otherRun.gatedOff
    /\ invalid' = otherRun.invalid
    /\ failures' = otherRun.failures
    /\ blockedBy' = otherRun.blockedBy
    /\ abortedBy' = otherRun.abortedBy
    /\ slept' = otherRun.slept
    /\ observed' = otherRun.observed
    /\ overtook' = otherRun.overtook
    /\ callerContext' = otherRun.callerContext
    /\ shared' = otherRun.shared
    /\ UNCHANGED engineVars

\* The caller has called execute twice, or will: the event loop leaves the
\* call whose locals the variables hold suspended at its await (or not yet
\* made, or returned) and turns to the caller's other call.  Each call of
\* execute and of runNode has locals of its own; the fields of the engine are
\* the same for both.
resumeOtherRun ==
    /\ phase # "idle" \/ otherRun.phase # "idle"
    /\ otherRun' = Locals
    /\ phase' = otherRun.phase
    /\ ctx' = otherRun.ctx
    /\ metrics' = otherRun.metrics
    /\ completed' = otherRun.completed
    /\ failed' = otherRun.failed
    /\ blocked' = otherRun.blocked
    /\ batchIdx' = otherRun.batchIdx
    /\ runnable' = otherRun.runnable
    /\ settled' = otherRun.settled
    /\ result' = otherRun.result
    /\ pc' = otherRun.pc
    /\ attempts' = otherRun.attempts
    /\ lastError' = otherRun.lastError
    /\ pending' = otherRun.pending
    /\ working' = otherRun.working
    /\ aborted' = otherRun.aborted
    /\ nodeCtx' = otherRun.nodeCtx
    /\ calls' = otherRun.calls
    /\ gatedOff' = otherRun.gatedOff
    /\ invalid' = otherRun.invalid
    /\ failures' = otherRun.failures
    /\ blockedBy' = otherRun.blockedBy
    /\ abortedBy' = otherRun.abortedBy
    /\ slept' = otherRun.slept
    /\ observed' = otherRun.observed
    /\ overtook' = otherRun.overtook
    /\ callerContext' = otherRun.callerContext
    /\ shared' = otherRun.shared
    /\ UNCHANGED engineVars

----------------------------------------------------------------------------
\* The specifications

Init ==
    /\ nodes = <<>>
    /\ nodesArray = <<>>
    /\ executionPlan = None
    /\ returned = [op |-> "constructor"]
    /\ phase = "idle"
    /\ ctx = InitialContext
    /\ metrics = NewMetrics
    /\ completed = {}
    /\ failed = {}
    /\ blocked = {}
    /\ batchIdx = 0
    /\ runnable = <<>>
    /\ settled = [n \in Ids |-> None]
    /\ result = None
    /\ pc = [n \in Ids |-> "idle"]
    /\ attempts = [n \in Ids |-> 0]
    /\ lastError = [n \in Ids |-> None]
    /\ pending = [n \in Ids |-> None]
    /\ working = {}
    /\ aborted = {}
    /\ calls = [n \in Ids |-> [c \in Callbacks |-> 0]]
    /\ gatedOff = {}
    /\ invalid = {}
    /\ failures = [n \in Ids |-> 0]
    /\ blockedBy = [n \in Ids |-> 0]
    /\ abortedBy = 0
    /\ nodeCtx = [n \in {} |-> InitialContext]
    /\ slept = [n \in Ids |-> <<>>]
    /\ observed = [n \in Ids |-> {}]
    /\ overtook = {}
    /\ callerContext = InitialContext
    /\ shared = FALSE
    /\ otherRun = Locals

\* The kinds of node the runs are checked on: what is configured and which of
\* the optional callbacks the node has.
NodeKinds ==
    { [config |-> EmptyRecord, shouldRun |-> FALSE, validate |-> FALSE, cleanup |-> FALSE],
      [config |-> [onError |-> "skip"], shouldRun |-> TRUE, validate |-> TRUE, cleanup |-> TRUE],
      [config |-> [onError |-> "skip-dependents", timeoutMs |-> 50],
       shouldRun |-> FALSE, validate |-> FALSE, cleanup |-> FALSE],
      [config |-> [onError |-> "fail", maxRetries |-> MaxRetries, retryDelayMs |-> 10],
       shouldRun |-> FALSE, validate |-> FALSE, cleanup |-> TRUE] }

\* The dependsOn lists of node id the runs are checked on: any non-empty set of
\* the ids registered before it, the id registered next alone (a node that
\* is registered later or never), or the node itself alone.
RunDeps(id) ==
    {SortedSeq(deps) : deps \in (SUBSET (1..(id - 1))) \ {{}}}
    \cup {<<id + 1>> : x \in {id} \cap (1..(MaxNodes - 1))}
    \cup {<<id>>}

\* The definitions of node id the runs are checked on: any kind, with no
\* dependsOn or one of RunDeps.
RunNodes(id) ==
    {DagNode(id, k.config, k.shouldRun, k.validate, k.cleanup) : k \in NodeKinds}
    \cup {DagNodeDepending(id, deps, k.config, k.shouldRun, k.validate, k.cleanup) :
            deps \in RunDeps(id), k \in NodeKinds}

\* A node without dependencies, callbacks or configuration.
PlainNode(id) == DagNode(id, EmptyRecord, FALSE, FALSE, FALSE)

Next ==
    \/ \E node \in RunNodes(Len(nodes) + 1) : Len(nodes) < MaxNodes /\ addNode(node)
    \/ \E id \in IdsOf(nodes) : addNode(PlainNode(id))
    \/ plan
    \/ \E initial \in InitialContexts : execute(initial)
    \/ batchSettled
    \/ \E n \in Ids : \E b \in BOOLEAN : shouldRunReturns(n, b)
    \/ \E n \in Ids : shouldRunThrows(n)
    \/ \E n \in Ids : \E b \in BOOLEAN : validateReturns(n, b)
    \/ \E n \in Ids : validateThrows(n)
    \/ \E n \in Ids : executeResolves(n)
    \/ \E n \in Ids : executeRejects(n)
    \/ \E n \in Ids : timeoutFires(n)
    \/ \E n \in Ids : \E a \in 1..(MaxRetries + 1) : abandonedWorkSettles(n, a)
    \/ \E n \in Ids : sleepEnds(n)
    \/ \E n \in Ids : cleanupReturns(n)
    \/ \E n \in Ids : cleanupThrows(n)

Spec == Init /\ [][Next]_vars

----------------------------------------------------------------------------
\* The planner on its own: registries whose dependsOn lists are any lists over
\* DepIds (repeated entries, the node itself and ids never registered
\* included), and the plan() calls on them.

PlanNodes(id) ==
    {PlainNode(id)}
    \cup {DagNodeDepending(id, deps, EmptyRecord, FALSE, FALSE, FALSE) : deps \in SeqsUpTo(DepIds, MaxDeps)}

NextPlan ==
    \/ \E node \in PlanNodes(Len(nodes) + 1) : Len(nodes) < MaxNodes /\ addNode(node)
    \/ \E id \in IdsOf(nodes) : addNode(PlainNode(id))
    \/ plan

SpecPlan == Init /\ [][NextPlan]_vars

----------------------------------------------------------------------------
\* The attempt loop on its own: runs of nodes without gate and validation,
\* alone, side by side or in a chain, that retry with the default and with a
\* configured delay and that have a timeout or none.

TimedKinds ==
    { [config |-> [timeoutMs |-> 50, maxRetries |-> MaxRetries], cleanup |-> TRUE],
      [config |-> [onError |-> "skip", maxRetries |-> MaxBackoffRetries, retryDelayMs |-> 10],
       cleanup |-> FALSE] }

TimedNodes(id) ==
    {DagNode(id, k.config, FALSE, FALSE, k.cleanup) : k \in TimedKinds}
    \cup {DagNodeDepending(id, <<id - 1>>, k.config, FALSE, FALSE, k.cleanup) :
            k \in TimedKinds, x \in {id} \ {1}}

NextTimed ==
    \/ \E node \in TimedNodes(Len(nodes) + 1) : Len(nodes) < MaxNodes /\ addNode(node)
    \/ execute(InitialContext)
    \/ batchSettled
    \/ \E n \in Ids : executeResolves(n)
    \/ \E n \in Ids : executeRejects(n)
    \/ \E n \in Ids : timeoutFires(n)
    \/ \E n \in Ids : \E a \in 1..(MaxRetries + 1) : abandonedWorkSettles(n, a)
    \/ \E n \in Ids : sleepEnds(n)
    \/ \E n \in Ids : cleanupReturns(n)
    \/ \E n \in Ids : cleanupThrows(n)

SpecTimed == Init /\ [][NextTimed]_vars

----------------------------------------------------------------------------
\* Work items that write to the context they are given: runs of nodes without
\* gate, validation and cleanup, alone, side by side or in a chain, whose work
\* items may assign a field of their ctx in place before they settle.

WriterKinds == {EmptyRecord, [onError |-> "skip"]}

WriterNodes(id) ==
    {DagNode(id, c, FALSE, FALSE, FALSE) : c \in WriterKinds}
    \cup {DagNodeDepending(id, <<id - 1>>, c, FALSE, FALSE, FALSE) :
            c \in WriterKinds, x \in {id} \ {1}}

NextWriters ==
    \/ \E node \in WriterNodes(Len(nodes) + 1) : Len(nodes) < MaxNodes /\ addNode(node)
    \/ \E initial \in InitialContexts : execute(initial)
    \/ batchSettled
    \/ \E n \in Ids : executeResolves(n)
    \/ \E n \in Ids : executeRejects(n)
    \/ \E n \in Ids : workItemWritesContext(n)

SpecWriters == Init /\ [][NextWriters]_vars

----------------------------------------------------------------------------
\* Runs in which what is awaited comes: the event loop resumes every
\* continuation that is ready, timers fire, every gate check, validation and
\* cleanup returns or throws, and a work item settles unless its node has a
\* timeout configured, in which case it may run for ever and the timer of
\* withTimeout fires instead.

\* A step of runNode(n) that the run may count on.
runNodeStep(n) ==
    \/ \E b \in BOOLEAN : shouldRunReturns(n, b)
    \/ shouldRunThrows(n)
    \/ \E b \in BOOLEAN : validateReturns(n, b)
    \/ validateThrows(n)
    \/ sleepEnds(n)
    \/ cleanupReturns(n)
    \/ cleanupThrows(n)
    \/ IF Has(n) /\ "timeoutMs" \in DOMAIN Get(n).config /\ Get(n).config.timeoutMs > 0
       THEN timeoutFires(n)
       ELSE executeResolves(n) \/ executeRejects(n)

Fairness ==
    /\ WF_vars(batchSettled)
    /\ \A n \in Ids : WF_vars(runNodeStep(n))

\* The runs checked under fairness: at most MaxLiveNodes nodes, alone, side by
\* side or in a chain, each either plain (no timeout, one attempt) or with
\* every optional callback, a timeout and retries.
MaxLiveNodes == 2

LiveKinds ==
    { [config |-> EmptyRecord, shouldRun |-> FALSE, validate |-> FALSE, cleanup |-> FALSE],
      [config |-> [timeoutMs |-> 50, maxRetries |-> MaxRetries, retryDelayMs |-> 10],
       shouldRun |-> TRUE, validate |-> TRUE, cleanup |-> TRUE] }

LiveNodes(id) ==
    {DagNode(id, k.config, k.shouldRun, k.validate, k.cleanup) : k \in LiveKinds}
    \cup {DagNodeDepending(id, <<id - 1>>, k.config, k.shouldRun, k.validate, k.cleanup) :
            k \in LiveKinds, x \in {id} \ {1}}

NextLive ==
    \/ \E node \in LiveNodes(Len(nodes) + 1) : Len(nodes) < MaxLiveNodes /\ addNode(node)
    \/ execute(InitialContext)
    \/ batchSettled
    \/ \E n \in Ids : \E b \in BOOLEAN : shouldRunReturns(n, b)
    \/ \E n \in Ids : shouldRunThrows(n)
    \/ \E n \in Ids : \E b \in BOOLEAN : validateReturns(n, b)
    \/ \E n \in Ids : validateThrows(n)
    \/ \E n \in Ids : executeResolves(n)
    \/ \E n \in Ids : executeRejects(n)
    \/ \E n \in Ids : timeoutFires(n)
    \/ \E n \in Ids : \E a \in 1..(MaxRetries + 1) : abandonedWorkSettles(n, a)
    \/ \E n \in Ids : sleepEnds(n)
    \/ \E n \in Ids : cleanupReturns(n)
    \/ \E n \in Ids : cleanupThrows(n)

SpecLive == Init /\ [][NextLive]_vars /\ Fairness

----------------------------------------------------------------------------
\* Two calls of execute on one engine, one after the other or interleaved at
\* their awaits.  The nodes are registered before the first call; each has one
\* attempt, any error strategy and a gate or none, and they stand side by side
\* or in a chain.
MaxRunsNodes == 2

RunsKinds ==
    { [config |-> EmptyRecord, shouldRun |-> FALSE],
      [config |-> [onError |-> "skip"], shouldRun |-> FALSE],
      [config |-> [onError |-> "skip-dependents"], shouldRun |-> FALSE],
      [config |-> [onError |-> "skip"], shouldRun |-> TRUE] }

RunsNodes(id) ==
    {DagNode(id, k.config, k.shouldRun, FALSE, FALSE) : k \in RunsKinds}
    \cup {DagNodeDepending(id, <<id - 1>>, k.config, k.shouldRun, FALSE, FALSE) :
            k \in RunsKinds, x \in {id} \ {1}}

NextRuns ==
    \/ \E node \in RunsNodes(Len(nodes) + 1) :
          Len(nodes) < MaxRunsNodes /\ otherRun.phase = "idle" /\ addNode(node)
    \/ execute(InitialContext)
    \/ resumeOtherRun
    \/ batchSettled
    \/ \E n \in Ids : \E b \in BOOLEAN : shouldRunReturns(n, b)
    \/ \E n \in Ids : executeResolves(n)
    \/ \E n \in Ids : executeRejects(n)

SpecRuns == Init /\ [][NextRuns]_vars

----------------------------------------------------------------------------
\* mergeContext on its own: contexts and patches whose fields hold structured
\* values, and the calls of mergeContext on them.  structuredClone copies such
\* a value field by field, which gives an equal value.

\* The structured values a field holds.
MergeValues == {[x |-> 1], [x |-> 2], [y |-> 1], [x |-> 1, y |-> 1]}

\* The contexts and patches: any of the fields 1..MaxFields, each with any value.
MergeContexts == UNION {[S -> MergeValues] : S \in SUBSET (1..MaxFields)}

InitMerge ==
    /\ ctx \in MergeContexts
    /\ nodes = <<>>
    /\ nodesArray = <<>>
    /\ executionPlan = None
    /\ returned = [op |-> "constructor"]
    /\ phase = "idle"
    /\ metrics = NewMetrics
    /\ completed = {}
    /\ failed = {}
    /\ blocked = {}
    /\ batchIdx = 0
    /\ runnable = <<>>
    /\ settled = [n \in Ids |-> None]
    /\ result = None
    /\ pc = [n \in Ids |-> "idle"]
    /\ attempts = [n \in Ids |-> 0]
    /\ lastError = [n \in Ids |-> None]
    /\ pending = [n \in Ids |-> None]
    /\ working = {}
    /\ aborted = {}
    /\ calls = [n \in Ids |-> [c \in Callbacks |-> 0]]
    /\ gatedOff = {}
    /\ invalid = {}
    /\ failures = [n \in Ids |-> 0]
    /\ blockedBy = [n \in Ids |-> 0]
    /\ abortedBy = 0
    /\ nodeCtx = [n \in {} |-> InitialContext]
    /\ slept = [n \in Ids |-> <<>>]
    /\ observed = [n \in Ids |-> {}]
    /\ overtook = {}
    /\ callerContext = InitialContext
    /\ shared = FALSE
    /\ otherRun = Locals

\* ctx = mergeContext(ctx, patch)
merge(patch) ==
    /\ ctx' = mergeContext(ctx, patch)
    /\ returned' = [op |-> "mergeContext", base |-> ctx, patch |-> patch,
                    value |-> mergeContext(ctx, patch)]
    /\ UNCHANGED <<nodes, nodesArray, executionPlan>>
    /\ UNCHANGED <<phase, metrics, completed, failed, blocked, batchIdx, runnable, settled, result>>
    /\ UNCHANGED <<nodeVars, histVars, callerVars>>

NextMerge == \E patch \in MergeContexts : merge(patch)

SpecMerge == InitMerge /\ [][NextMerge]_vars

----------------------------------------------------------------------------
\* The dependency relation of the registered nodes

Registered == IdsOf(nodes)

\* The declared dependencies of a registered node.
DepsOf(id) == Range(DependsOn(Get(id)))

\* The registered nodes that declare id as a dependency.
DependentsOf(id) == {m \in Registered : id \in DepsOf(m)}

RECURSIVE DepsClosure(_, _)
DepsClosure(S, k) ==
    IF k = 0 THEN S
    ELSE DepsClosure(S \cup UNION {DepsOf(x) : x \in S \cap Registered}, k - 1)

\* The dependencies of id, direct or through a chain of dependencies.
TransitiveDeps(id) == DepsClosure(DepsOf(id), Len(nodes))

\* The nodes that depend on id, directly or through a chain of dependencies.
TransitiveDependents(id) == {m \in Registered : id \in TransitiveDeps(m)}

\* Every dependency names a registered node and no node reaches itself.
DepsRegistered == \A id \in Registered : DepsOf(id) \subseteq Registered
Acyclic == \A id \in Registered : id \notin TransitiveDeps(id)

\* The concatenation of a sequence of sequences.
RECURSIVE Concat(_)
Concat(ss) == IF ss = <<>> THEN <<>> ELSE Head(ss) \o Concat(Tail(ss))

\* The position of id in a sequence of distinct ids that holds it.
IndexIn(seq, id) == CHOOSE i \in 1..Len(seq) : seq[i] = id

\* The index of the batch of the cached plan that holds id.
BatchOf(id) == CHOOSE k \in 1..Len(executionPlan.batches) : id \in Range(executionPlan.batches[k])

\* plan() was the last call and returned a plan.
PlanReturned == returned.op = "plan" /\ "value" \in DOMAIN returned

----------------------------------------------------------------------------
\* C2: for every registry whose dependencies all name registered nodes and
\* whose dependency relation is acyclic, plan() returns a plan whose order
\* holds every registered node exactly once, each after all its dependencies.
C2_OrderIsTopological ==
    (returned.op = "plan" /\ DepsRegistered /\ Acyclic) =>
        /\ "value" \in DOMAIN returned
        /\ LET order == returned.value.order
           IN /\ Len(order) = Len(nodes)
              /\ Range(order) = Registered
              /\ \A id \in Registered : \A d \in DepsOf(id) :
                    IndexIn(order, d) < IndexIn(order, id)

\* C3: in every plan the planner returns, the batches concatenated in order are
\* the order, every dependency of a node of batch k lies in a batch before k,
\* and no node shares a batch with one of its transitive dependencies.
C3_BatchesPartitionOrder ==
    PlanReturned =>
        LET p == returned.value
            batchOf(id) == CHOOSE k \in 1..Len(p.batches) : id \in Range(p.batches[k])
        IN /\ Concat(p.batches) = p.order
           /\ \A id \in Range(p.order) :
                /\ \A d \in DepsOf(id) : d \in Range(p.order) /\ batchOf(d) < batchOf(id)
                /\ \A d \in TransitiveDeps(id) : d \notin Range(p.batches[batchOf(id)])

\* C3's case: a plan of three nodes in two batches, one node depending on both
\* nodes of the first batch.
C3_Witness ==
    /\ PlanReturned
    /\ Len(returned.value.batches) = 2
    /\ Len(returned.value.batches[1]) = 2
    /\ \E id \in Registered : Cardinality(DepsOf(id)) = 2

----------------------------------------------------------------------------
\* Claims about a run

\* runNode of n has been called.
Started(n) == pc[n] # "idle"

\* The promise of runNode(n) has settled: n has its terminal outcome.
Terminal(n) == pc[n] = "settled"

\* A run is under way or over (the plan it runs is cached).
InRun == phase # "idle" /\ executionPlan # None

\* C1: no node of a batch starts before every node of the earlier batches that
\* is not blocked has reached its terminal outcome, and so no node starts
\* before each of its declared dependencies has reached its terminal outcome.
C1_BatchBarrier ==
    InRun =>
        \A n \in Registered : Started(n) =>
            /\ \A m \in Registered :
                (BatchOf(m) < BatchOf(n) /\ m \notin blocked) => Terminal(m)
            /\ \A d \in DepsOf(n) : Terminal(d)

\* C1's case: a node of the second batch has started after a first batch of two
\* nodes, one of which it depends on.
C1_Witness ==
    /\ InRun
    /\ \E n \in Registered :
        /\ Started(n)
        /\ BatchOf(n) = 2
        /\ Len(executionPlan.batches[1]) = 2
        /\ DepsOf(n) # {}

\* The strategy of a node as the claims speak of it: the configured onError,
\* `fail` when none is configured.
StrategyOf(n) ==
    IF "onError" \in DOMAIN Get(n).config THEN Get(n).config.onError ELSE "fail"

\* The attempts a node is allowed: its configured maxRetries (0 when none is
\* configured) plus one.
AllowedAttempts(n) ==
    (IF "maxRetries" \in DOMAIN Get(n).config THEN Get(n).config.maxRetries ELSE 0) + 1

\* Node n failed all of its attempts.
FailedAllAttempts(n) == failures[n] = AllowedAttempts(n)

\* execute has processed the outcome of n: the batch of n is over, or the run
\* ended in it and was not aborted by a node listed before n.
Reached(n) ==
    /\ Terminal(n)
    /\ \/ BatchOf(n) < batchIdx
       \/ /\ phase = "done"
          /\ abortedBy = 0 \/ IndexIn(runnable, n) <= IndexIn(runnable, abortedBy)

\* metrics.nodes[n] is the record rec.
HasRecord(n, rec) == n \in DOMAIN metrics.nodes /\ metrics.nodes[n] = rec

\* metrics.nodes[n] has the status st.
HasStatus(n, st) == n \in DOMAIN metrics.nodes /\ metrics.nodes[n].status = st

\* No callback of n was ever invoked.
NeverInvoked(n) == \A c \in Callbacks : calls[n][c] = 0

\* Every node whose batch was entered while it was not blocked was started.
UnblockedNodesRun ==
    \A m \in Registered : (BatchOf(m) <= batchIdx /\ m \notin blocked) => Started(m)

\* C4: when a node with the `fail` strategy (also when onError is not set) has
\* failed all of its attempts and execute has processed that outcome, execute
\* has returned success = false with the node's last error as the top-level
\* error, and no node of a later batch was started.
C4_FailAbortsWithLastError ==
    InRun =>
        \A n \in Registered :
            (StrategyOf(n) = "fail" /\ FailedAllAttempts(n) /\ Reached(n)) =>
                /\ phase = "done"
                /\ result.success = FALSE
                /\ result.error = lastError[n]
                /\ \A m \in Registered : BatchOf(m) > BatchOf(n) => ~Started(m)

\* C5: when a `fail`-strategy failure aborted the run, the returned context
\* holds the patch of every successful node of the batches before the aborting
\* one and no patch of a node of the aborting batch.
C5_AbortedContextHoldsWholeBatches ==
    (InRun /\ phase = "done" /\ abortedBy # 0) =>
        \A n \in Registered :
            /\ (BatchOf(n) < BatchOf(abortedBy) /\ settled[n] = [patch |-> PatchOf(n)])
                    => n \in DOMAIN result.context
            /\ BatchOf(n) = BatchOf(abortedBy) => n \notin DOMAIN result.context

C7_SkipDependentsBlocksExactly ==
    InRun =>
        \A n \in Registered :
            (StrategyOf(n) = "skip-dependents" /\ FailedAllAttempts(n) /\ Reached(n)) =>
                /\ abortedBy # n
                /\ TransitiveDependents(n) \subseteq blocked
                /\ \A m \in Registered : blockedBy[m] = n => m \in TransitiveDependents(n)

\* C7's case: a `skip-dependents` node failed all its attempts; a node that
\* depends on it only through another node is blocked because of it.
C7_Witness ==
    /\ InRun
    /\ \E n \in Registered :
        /\ StrategyOf(n) = "skip-dependents"
        /\ FailedAllAttempts(n)
        /\ Reached(n)
        /\ \E m \in TransitiveDependents(n) \ DependentsOf(n) : blockedBy[m] = n

C10_BlockedIsFinal ==
    [][\A n \in Ids :
        /\ n \in blocked' =>
                /\ pc'[n] = "idle"
                /\ \A c \in Callbacks : calls'[n][c] = 0
                /\ n \in DOMAIN metrics'.nodes /\ metrics'.nodes[n] = BlockedRecord
        /\ n \in blocked => n \in blocked'
        /\ Started(n) => n \notin blocked']_vars

\* C10's case: the run went through the batch of a blocked node and ended.
C10_Witness ==
    /\ InRun
    /\ phase = "done"
    /\ result.success
    /\ \E n \in blocked : BatchOf(n) <= batchIdx

----------------------------------------------------------------------------
\* Claims about the attempt loop

\* How often the work item of n was invoked.
Invocations(n) == calls[n]["execute"]

\* The attempt loop of n has ended: runNode is in its finally block or settled
\* after at least one attempt.
LoopEnded(n) == pc[n] \in {"cleanup", "settled"} /\ Invocations(n) > 0

\* C11: the work item of a node is invoked once per attempt, a new attempt being
\* made only after the one before failed, and at most maxRetries + 1 times (once
\* when maxRetries is not configured); the loop ends either with a success,
\* after j failures and j + 1 invocations, with the success record, or with
\* maxRetries + 1 failed attempts and as many invocations, with the failed
\* record; the attempts of the record are the number of invocations.
C11_AttemptsUntilSuccessOrExhausted ==
    InRun =>
        \A n \in Registered :
            /\ Invocations(n) <= AllowedAttempts(n)
            /\ pc[n] = "execute" => Invocations(n) = failures[n] + 1
            /\ pc[n] = "sleep" => Invocations(n) = failures[n] /\ failures[n] < AllowedAttempts(n)
            /\ LoopEnded(n) =>
                \/ /\ Invocations(n) = failures[n] + 1
                   /\ HasRecord(n, SuccessRecord(Invocations(n)))
                \/ /\ failures[n] = AllowedAttempts(n)
                   /\ Invocations(n) = AllowedAttempts(n)
                   /\ HasStatus(n, "failed")
                   /\ metrics.nodes[n].attempts = Invocations(n)

\* C11's case: a node with maxRetries = 1 failed its first attempt, succeeded in
\* its second and has settled with two attempts on its success record.
C11_Witness ==
    /\ InRun
    /\ \E n \in Registered :
        /\ AllowedAttempts(n) = 2
        /\ failures[n] = 1
        /\ Terminal(n)
        /\ HasRecord(n, SuccessRecord(2))
        /\ Invocations(n) = 2

\* The retry delay of a node as the claims speak of it: the configured
\* retryDelayMs, 500 when none is configured.
RetryDelayOf(n) ==
    IF "retryDelayMs" \in DOMAIN Get(n).config THEN Get(n).config.retryDelayMs ELSE DefaultRetryDelayMs

\* The smaller of two numbers.
Min(a, b) == IF a <= b THEN a ELSE b

\* C12: the runner has waited once after each failed attempt a (counted from 0)
\* with a < maxRetries, for retryDelay * 2^a, and at no other time: not after
\* the last permitted attempt and not after a successful one; while it waits
\* the next attempt has not started.
C12_ExponentialBackoff ==
    InRun =>
        \A n \in Registered :
            /\ Len(slept[n]) = Min(failures[n], AllowedAttempts(n) - 1)
            /\ \A k \in 1..Len(slept[n]) : slept[n][k] = RetryDelayOf(n) * 2 ^ (k - 1)
            /\ pc[n] = "sleep" => Invocations(n) = Len(slept[n])

\* C12's case: a node with retryDelayMs = 10 has failed three attempts and
\* waited 10 and 20, and a node without retryDelayMs has waited 500.
C12_Witness ==
    /\ InRun
    /\ \E n \in Registered : failures[n] = 3 /\ Terminal(n) /\ slept[n] = <<10, 20>>
    /\ \E n \in Registered : slept[n] = <<500>>

\* The cleanup of every registered node was invoked once if the node has a
\* cleanup and its attempt loop has ended, in success or with its attempts
\* exhausted, and not at all otherwise: not before or between attempts, not for
\* a node without attempt (gate-skipped, validation-skipped, blocked).
CleanupOnceAfterLoop ==
    InRun =>
        \A n \in Registered :
            /\ calls[n]["cleanup"] = IF Get(n).cleanup /\ LoopEnded(n) THEN 1 ELSE 0
            /\ calls[n]["cleanup"] = 1 =>
                    HasStatus(n, "success") \/ failures[n] = AllowedAttempts(n)
            /\ n \in gatedOff \cup invalid \cup blocked => calls[n]["cleanup"] = 0

\* C13: after every step CleanupOnceAfterLoop holds, and once the cleanup of a
\* node was invoked its work item is not invoked again.
C13_CleanupOnceAfterLoop ==
    [][/\ CleanupOnceAfterLoop'
       /\ \A n \in Ids : calls[n]["cleanup"] = 1 => calls'[n]["execute"] = calls[n]["execute"]]_vars

\* C13's case: a node exhausted its two attempts and a node succeeded, the
\* cleanup of each was invoked once, and a gate-skipped node with a cleanup had
\* none.
C13_Witness ==
    /\ InRun
    /\ \E n \in Registered :
        failures[n] = 2 /\ HasStatus(n, "failed") /\ Terminal(n) /\ calls[n]["cleanup"] = 1
    /\ \E n \in Registered :
        HasStatus(n, "success") /\ Terminal(n) /\ calls[n]["cleanup"] = 1
    /\ \E n \in gatedOff : Get(n).cleanup /\ calls[n]["cleanup"] = 0

\* The promise of runNode(n) was rejected with what the cleanup of n threw.
CleanupFailed(n) ==
    /\ "err" \in DOMAIN settled[n]
    /\ settled[n].err.name = "user"
    /\ settled[n].err.callback = "cleanup"

\* C14: when the work item of a node succeeded, its cleanup then failed and
\* execute has processed the node's outcome, the node is among the completed
\* and not among the failed nodes, the context holds its patch, and the run was
\* not aborted because of it, whatever its onError.
C14_CleanupFailureNotEscalated ==
    InRun =>
        \A n \in Registered :
            (HasStatus(n, "success") /\ CleanupFailed(n) /\ Reached(n)) =>
                /\ n \in completed
                /\ n \notin failed
                /\ n \in DOMAIN ctx
                /\ abortedBy # n

----------------------------------------------------------------------------
\* Claims about timeouts and cancellation

\* Node n has a timeout configured.
TimeoutConfigured(n) == "timeoutMs" \in DOMAIN Get(n).config /\ Get(n).config.timeoutMs > 0

\* A run was aborted with the timeout error of every `fail` node whose last
\* permitted attempt timed out and whose outcome execute has processed.
TimeoutAbortsRun ==
    InRun =>
        \A n \in Registered :
            (/\ StrategyOf(n) = "fail"
             /\ FailedAllAttempts(n)
             /\ lastError[n] = TimeoutError(n)
             /\ Reached(n)) =>
                /\ phase = "done"
                /\ result.success = FALSE
                /\ result.error = TimeoutError(n)

\* C15: in every step in which an attempt of a node fails, the attempt failed
\* with the error `<id> timed out` exactly if its cancellation token was
\* triggered; a timed-out attempt belongs to a node with a timeout whose work
\* item had not settled, and it is followed by the backoff wait while attempts
\* remain and by the failed record with the timeout error when none remain; a
\* step in which the work item of the current attempt settles does not report a
\* timeout; and after every step TimeoutAbortsRun holds.
C15_TimeoutFailsTheAttempt ==
    [][/\ \A n \in Ids :
            LET tok == <<n, attempts[n]>>
                timedOut == lastError'[n] = TimeoutError(n)
            IN /\ failures'[n] = failures[n] + 1 =>
                    /\ timedOut <=> tok \in aborted'
                    /\ timedOut =>
                        /\ TimeoutConfigured(n)
                        /\ tok \in working
                        /\ attempts[n] < AllowedAttempts(n) => pc'[n] = "sleep"
                        /\ attempts[n] = AllowedAttempts(n) =>
                                /\ pc'[n] \in {"cleanup", "settled"}
                                /\ n \in DOMAIN metrics'.nodes
                                /\ metrics'.nodes[n] = FailedRecord(attempts[n], TimeoutError(n))
               /\ (pc[n] = "execute" /\ tok \in working /\ tok \notin working') =>
                    ~(failures'[n] = failures[n] + 1 /\ timedOut)
       /\ TimeoutAbortsRun']_vars

\* C16: in every step, the token of an attempt that starts is not triggered;
\* at most one token is triggered; and a token that is triggered is the token
\* of the current attempt of a node with a timeout, whose work item has not
\* settled and which fails in this step with the timeout error.  So a timeout
\* triggers no token of another node or of another attempt, and the token of
\* an attempt that settled, or of a node without timeout, is never triggered.
C16_TokenPerAttempt ==
    [][/\ \A n \in Ids :
            attempts'[n] = attempts[n] + 1 => <<n, attempts'[n]>> \notin aborted'
       /\ Cardinality(aborted' \ aborted) <= 1
       /\ \A tok \in aborted' \ aborted :
            LET n == tok[1]
            IN /\ tok[2] = attempts[n]
               /\ pc[n] = "execute"
               /\ tok \in working
               /\ TimeoutConfigured(n)
               /\ failures'[n] = failures[n] + 1
               /\ lastError'[n] = TimeoutError(n)]_vars

\* C16's case: the first attempt of a node timed out and its second attempt is
\* running with its token not triggered, beside a node of the same batch that
\* has a timeout, is running its first attempt and has its token not triggered.
C16_Witness ==
    /\ InRun
    /\ \E n, m \in Registered :
        /\ n # m
        /\ BatchOf(n) = BatchOf(m)
        /\ <<n, 1>> \in aborted
        /\ pc[n] = "execute" /\ attempts[n] = 2 /\ <<n, 2>> \notin aborted
        /\ TimeoutConfigured(m)
        /\ pc[m] = "execute" /\ attempts[m] = 1 /\ <<m, 1>> \notin aborted

----------------------------------------------------------------------------
\* Claims about the context

\* The position of a registered node in the order of the cached plan.
PositionOf(n) == IndexIn(executionPlan.order, n)

\* The position in the order at which batch k starts.
BatchStart(k) == PositionOf(executionPlan.batches[k][1])

\* The nodes before position pos of the order whose work item gave its patch.
WritersBefore(pos) ==
    {m \in Registered : PositionOf(m) < pos /\ settled[m] = [patch |-> PatchOf(m)]}

\* The initial context with the patches of WritersBefore(pos) merged in the
\* order of their positions: each writer's own field, and in the field every
\* work item writes the value of the writer listed last.
MergedBefore(pos) ==
    LET writers == WritersBefore(pos)
        last == CHOOSE m \in writers : \A x \in writers : PositionOf(x) <= PositionOf(m)
    IN [f \in DOMAIN InitialContext \cup writers |->
            IF f \in writers THEN PatchOf(f)[f]
            ELSE IF writers = {} THEN InitialContext[f]
            ELSE PatchOf(last)[f]]

\* C17: every callback of a started node (gate check, validation, every attempt
\* of the work item, cleanup) was invoked with one and the same context: the
\* initial context with the patches of all earlier batches merged, which holds
\* no patch of a node of the same batch.
C17_BatchObservesStartContext ==
    InRun =>
        \A n \in Registered : Started(n) =>
            /\ observed[n] = {MergedBefore(BatchStart(BatchOf(n)))}
            /\ \A c \in observed[n] : \A m \in Registered :
                    BatchOf(m) = BatchOf(n) => m \notin DOMAIN c /\ c[0] # m

\* C17's case: two nodes of the second batch have run to their end, one after
\* the other had settled with its patch, one of them through a cleanup; both
\* observed the patch of a node of the first batch.
C17_Witness ==
    /\ InRun
    /\ \E n, m \in Registered :
        /\ n # m /\ BatchOf(n) = 2 /\ BatchOf(m) = 2
        /\ Terminal(n) /\ Terminal(m)
        /\ settled[n] = [patch |-> PatchOf(n)]
        /\ m \in overtook \/ n \in overtook
        /\ calls[m]["execute"] > 0 /\ calls[m]["cleanup"] = 1
        /\ observed[n] = observed[m]
        /\ \E c \in observed[m] : DOMAIN c # DOMAIN InitialContext

\* The node whose failure aborts the run, given how the nodes settled: the
\* first in the order that failed other than by its gate and has the `fail`
\* strategy; 0 when there is none.
Escalates(n) ==
    /\ "err" \in DOMAIN settled[n]
    /\ settled[n].err.name # "SkipSuccessors"
    /\ StrategyOf(n) = "fail"

FirstEscalating ==
    IF \E n \in Registered : Escalates(n)
    THEN CHOOSE n \in Registered :
            Escalates(n) /\ \A m \in Registered : Escalates(m) => PositionOf(n) <= PositionOf(m)
    ELSE 0

\* The nodes whose outcome execute processes, given how the nodes settled:
\* the settled nodes up to the one that aborts the run.
Processed ==
    {n \in Registered : Terminal(n) /\ (FirstEscalating # 0 => PositionOf(n) <= PositionOf(FirstEscalating))}

\* C18: when execute has returned, the context and the counters of the result
\* are determined by how the nodes settled and by the order of the plan, not by
\* the order in which they settled: the context is the initial context with the
\* patches merged in the order the nodes are listed, up to the node that
\* aborted the run, so that in a field two nodes of a batch write the value of
\* the node listed later stands; the counters count the processed outcomes.
C18_MergeInListedOrder ==
    (InRun /\ phase = "done") =>
        /\ result.success = (FirstEscalating = 0)
        /\ result.context = MergedBefore(IF FirstEscalating = 0
                                         THEN Len(executionPlan.order) + 1
                                         ELSE PositionOf(FirstEscalating))
        /\ result.metrics.successfulNodes =
                Cardinality({n \in Processed : "patch" \in DOMAIN settled[n]})
        /\ result.metrics.failedNodes =
                Cardinality({n \in Processed : "err" \in DOMAIN settled[n]
                                                /\ settled[n].err.name # "SkipSuccessors"})
        /\ result.metrics.skippedNodes = Cardinality(gatedOff \cup invalid)

\* C18's case: two nodes of one batch of two both gave their patch, the one
\* listed later settled first, and the field both write holds its value.
C18_Witness ==
    /\ InRun /\ phase = "done" /\ result.success
    /\ \E a, b \in Registered :
        /\ BatchOf(a) = BatchOf(b)
        /\ Len(executionPlan.batches[BatchOf(a)]) = 2
        /\ PositionOf(a) < PositionOf(b)
        /\ settled[a] = [patch |-> PatchOf(a)]
        /\ settled[b] = [patch |-> PatchOf(b)]
        /\ b \in overtook
        /\ BatchOf(a) = Len(executionPlan.batches)
        /\ result.context[0] = b

\* C19: the context mergeContext returns has the fields of the base and of
\* the patch; every field of the patch has the patch's value, whole, whatever
\* the base held in it; every other field has the base's value; and with an
\* empty patch the result is the base.
C19_MergeReplacesTopLevelFields ==
    returned.op = "mergeContext" =>
        LET base == returned.base
            patch == returned.patch
            value == returned.value
        IN /\ DOMAIN value = DOMAIN base \cup DOMAIN patch
           /\ \A f \in DOMAIN patch : value[f] = patch[f]
           /\ \A f \in DOMAIN base \ DOMAIN patch : value[f] = base[f]
           /\ DOMAIN patch = {} => value = base

\* C19's case: the patch has a nested value without a field the base's nested
\* value has, and the base has a field the patch has not.
C19_Witness ==
    /\ returned.op = "mergeContext"
    /\ \E f \in DOMAIN returned.base \cap DOMAIN returned.patch :
        /\ returned.base[f] = [x |-> 1]
        /\ returned.patch[f] = [y |-> 1]
        /\ returned.value[f] = [y |-> 1]
    /\ DOMAIN returned.base \ DOMAIN returned.patch # {}

----------------------------------------------------------------------------
\* Claims about a run whose planning fails

\* The registry cannot be planned: a dependency names no registered node, a
\* node depends on itself, or the dependencies contain a cycle.
SelfDependent(n) == n \in DepsOf(n)
Unplannable == ~DepsRegistered \/ ~Acyclic

\* err is an error of the planner that the registry accounts for.
IsPlanningError(err) ==
    /\ err.name \in {"depends on missing node", "cannot depend on itself", "Cycle detected"}
    /\ err.name = "depends on missing node" =>
            err.id \in Registered /\ err.dep \in DepsOf(err.id) \ Registered
    /\ err.name = "cannot depend on itself" =>
            err.id \in Registered /\ SelfDependent(err.id)
    /\ err.name = "Cycle detected" =>
            /\ DepsRegistered
            /\ \A n \in Registered : ~SelfDependent(n)
            /\ \E n \in Registered : n \in TransitiveDeps(n) /\ n \in Range(err.cycle)

\* C20: when execute is called on a registry that cannot be planned, it has
\* returned at once, without a second call of the planner and without entering
\* a batch: success is false, the error is the planner's, the context is the
\* initial context, no plan is cached and no callback of any node was invoked.
C20_PlanningFailureEndsRun ==
    (phase # "idle" /\ Unplannable) =>
        /\ phase = "done"
        /\ executionPlan = None
        /\ result.success = FALSE
        /\ "error" \in DOMAIN result
        /\ IsPlanningError(result.error)
        /\ result.context = InitialContext
        /\ batchIdx = 0
        /\ \A n \in Ids : pc[n] = "idle" /\ NeverInvoked(n)

\* C20's case: execute was called on two nodes that depend on each other, one
\* with a gate check, a validation and a cleanup, and returned the cycle error.
C20_Witness ==
    /\ phase = "done"
    /\ Unplannable
    /\ result.error.name = "Cycle detected"
    /\ \E n \in Registered : Get(n).shouldRun /\ Get(n).cleanup /\ n \in Range(result.error.cycle)

----------------------------------------------------------------------------
\* Claims about cycles

\* Node n lies on a cycle of two or more nodes.
OnLongCycle(n) ==
    \E m \in Registered \ {n} : m \in TransitiveDeps(n) /\ n \in TransitiveDeps(m)

\* err is the cycle error and names every node that lies on a cycle.
CycleErrorNamesCycles(err) ==
    /\ err.name = "Cycle detected"
    /\ \A n \in Registered : OnLongCycle(n) => n \in Range(err.cycle)

\* A plan() call that was the last call threw the cycle error, and an execute
\* call that has returned failed with it.
FailsWithCycleError ==
    /\ returned.op = "plan" =>
            "thrown" \in DOMAIN returned /\ CycleErrorNamesCycles(returned.thrown)
    /\ phase = "done" =>
            /\ result.success = FALSE
            /\ "error" \in DOMAIN result
            /\ CycleErrorNamesCycles(result.error)

\* C21 as stated: whenever some registered node lies on a cycle of two or more
\* nodes, plan() and execute fail with the cycle error, which names every node
\* on a cycle.
C21_CycleFailsPlanning ==
    (\E n \in Registered : OnLongCycle(n)) => FailsWithCycleError

\* C21 amended: the same, for registries in which every dependency names a
\* registered node and no node depends on itself.
C21_CycleFailsPlanningOfValidDeps ==
    (/\ \E n \in Registered : OnLongCycle(n)
     /\ DepsRegistered
     /\ \A n \in Registered : ~SelfDependent(n)) => FailsWithCycleError

\* C21's case: execute has returned on three nodes that form one cycle, with
\* the cycle error naming the three.
C21_Witness ==
    /\ phase = "done"
    /\ Len(nodes) = 3
    /\ \A n \in Registered : OnLongCycle(n) /\ Cardinality(DepsOf(n)) = 1
    /\ result.error.name = "Cycle detected"
    /\ Range(result.error.cycle) = Registered

----------------------------------------------------------------------------
\* Claims about addNode

\* The step is an addNode call: the engine is idle before and after it and the
\* call that returned last is addNode.
IsAddNodeStep == phase = "idle" /\ phase' = "idle" /\ returned'.op = "addNode"

\* C22: an addNode call either throws the duplicate-node error for an id that
\* was registered, leaving the registry, the stored definitions and the cached
\* plan as they were, or registers one node under an id that was not
\* registered and returns the engine.
C22_DuplicateAddNodeHasNoEffect ==
    [][IsAddNodeStep =>
          IF "thrown" \in DOMAIN returned'
          THEN /\ returned'.thrown = DuplicateNodeError(returned'.thrown.id)
               /\ returned'.thrown.id \in Registered
               /\ nodes' = nodes
               /\ nodesArray' = nodesArray
               /\ executionPlan' = executionPlan
          ELSE /\ returned'.this = TRUE
               /\ Len(nodes') = Len(nodes) + 1
               /\ SubSeq(nodes', 1, Len(nodes)) = nodes
               /\ nodes'[Len(nodes')].id \notin Registered
               /\ nodesArray' = nodes']_vars

\* C22's case: addNode threw for a registered id while a plan was cached and
\* the definition stored under the id is not the one that was passed.
C22_Witness ==
    /\ returned.op = "addNode"
    /\ "thrown" \in DOMAIN returned
    /\ executionPlan # None
    /\ Get(returned.thrown.id).config # <<>>

----------------------------------------------------------------------------
\* Claims about the result of execute

\* The promise of the execute call that was made last was rejected.
ExecuteRaised == returned.op = "execute" /\ "rejected" \in DOMAIN returned

\* C23: no execute call raises, and a returned result has success = true
\* exactly when it carries no top-level error.
C23_ExecuteReturnsNeverRaises ==
    /\ ~ExecuteRaised
    /\ phase = "done" => (result.success <=> "error" \notin DOMAIN result)

\* Planning succeeded in the run that has returned: its plan is cached.
PlanningSucceeded == executionPlan # None

\* Node n has the `fail` strategy and its attempt loop ended in failure.
FailNodeExhausted(n) == StrategyOf(n) = "fail" /\ FailedAllAttempts(n)

\* Every batch of the plan was processed: every registered node is blocked or
\* had its outcome processed.
EveryBatchProcessed == \A n \in Registered : n \in blocked \/ Reached(n)

\* C24: a returned result has success = true exactly when planning succeeded
\* and no node with the `fail` strategy ended its attempt loop in failure, and
\* then every batch of the plan was processed.
C24_SuccessIffNoFailNodeExhausted ==
    phase = "done" =>
        /\ result.success <=>
              (PlanningSucceeded /\ \A n \in Registered : ~FailNodeExhausted(n))
        /\ result.success => EveryBatchProcessed

\* The run of node n ended in failure: the promise of runNode(n) was rejected
\* with an error other than the gate's signal.
RunEndedInFailure(n) ==
    /\ Terminal(n)
    /\ "err" \in DOMAIN settled[n]
    /\ settled[n].err.name # "SkipSuccessors"

\* C25: in every returned result, every node whose run ended in failure has a
\* record with status failed, the failed counter counts these nodes, and the
\* error of such a node with the `fail` strategy is the top-level error.
C25_FailuresAreRecordedAndCounted ==
    phase = "done" =>
        /\ \A n \in Registered : RunEndedInFailure(n) =>
              /\ n \in DOMAIN result.metrics.nodes
              /\ result.metrics.nodes[n].status = "failed"
              /\ StrategyOf(n) = "fail" =>
                    "error" \in DOMAIN result /\ result.error = settled[n].err
        /\ result.metrics.failedNodes =
              Cardinality({n \in Registered : RunEndedInFailure(n)})

\* C26: in every returned result, metrics.totalNodes is the number of
\* registered nodes.
C26_TotalNodesIsRegistrySize ==
    phase = "done" => result.metrics.totalNodes = Cardinality(Registered)

\* The records of metrics.nodes that exist before the step are the same after it.
RecordsKept ==
    \A n \in DOMAIN metrics.nodes :
        n \in DOMAIN metrics'.nodes /\ metrics'.nodes[n] = metrics.nodes[n]

\* C27: no step of a run overwrites or removes an outcome record, and a result
\* with success = true holds for every registered node one record whose status
\* is success, failed, skipped or blocked.
C27_RecordWrittenOnce ==
    [][/\ RecordsKept
       /\ (phase' = "done" /\ result'.success) =>
             \A n \in Registered' :
                /\ n \in DOMAIN result'.metrics.nodes
                /\ result'.metrics.nodes[n].status \in DagNodeStatus]_vars

----------------------------------------------------------------------------
\* Claims about the batches of a plan

\* The ids in the first k batches of a plan.
InBatchesUpTo(p, k) == UNION {Range(p.batches[j]) : j \in 1..k}

\* C28: in every plan plan() returns, no batch is empty and each batch holds
\* exactly the registered nodes that are in no earlier batch and whose
\* dependencies all lie in earlier batches; the first batch holds exactly the
\* nodes without dependencies.
C28_BatchesAreMaximal ==
    PlanReturned =>
        LET p == returned.value
        IN /\ \A k \in 1..Len(p.batches) :
                /\ p.batches[k] # <<>>
                /\ Range(p.batches[k]) =
                      {n \in Registered \ InBatchesUpTo(p, k - 1) :
                            DepsOf(n) \subseteq InBatchesUpTo(p, k - 1)}
           /\ Len(p.batches) > 0 =>
                Range(p.batches[1]) = {n \in Registered : DepsOf(n) = {}}

\* C28's case: a plan of three nodes in which the node registered last has no
\* dependencies and shares the first batch with the node registered first,
\* while the node between them waits for the second batch.
C28_Witness ==
    /\ PlanReturned
    /\ returned.value.batches = <<<<1, 3>>, <<2>>>>

----------------------------------------------------------------------------
\* Claims about the cached plan

\* C29: after every addNode, plan and execute call a cached plan is the
\* planner's plan of the registered nodes; a call that registers a node leaves
\* no plan cached, a planning attempt that failed (in plan() or in execute)
\* leaves none cached, a cached plan stays as it is while no node is added and
\* is what plan() returns, and the plan of a run holds every registered node.
C29_CachedPlanIsPlanOfRegistry ==
    [][/\ executionPlan' # None => executionPlan' = defaultPlanner(nodes')
       /\ (IsAddNodeStep /\ "this" \in DOMAIN returned') => executionPlan' = None
       /\ (executionPlan # None /\ nodes' = nodes) => executionPlan' = executionPlan
       /\ (returned'.op = "plan" /\ "thrown" \in DOMAIN returned') => executionPlan' = None
       /\ (returned'.op = "plan" /\ "value" \in DOMAIN returned') =>
             returned'.value = executionPlan'
       /\ (phase = "idle" /\ phase' = "done" /\ ~result'.success) => executionPlan' = None
       /\ (phase' # "idle" /\ executionPlan' # None) =>
             Range(executionPlan'.order) = Registered']_vars

\* C29's case: a run over three nodes, the last of them registered after a
\* plan could have been cached for the first two: the plan that was run holds
\* the three nodes in three batches and each of them completed.
C29_Witness ==
    /\ phase = "done"
    /\ result.success
    /\ Len(nodes) = 3
    /\ Len(executionPlan.batches) = 3
    /\ \A n \in Registered : n \in completed

----------------------------------------------------------------------------
\* Claims about what a run leaves alone

\* The step is a call of execute.
IsExecuteCall == phase = "idle" /\ returned'.op = "execute"

\* C30: from the call of execute on, no step changes the object the caller
\* passed as the initial context, whether the run succeeds or fails and also
\* when a work item assigns to the context it was given; and no step of an
\* execute call changes the registry or a registered node definition.
C30_CallerContextAndRegistryUnchanged ==
    [][/\ IsExecuteCall \/ callerContext' = callerContext
       /\ (IsExecuteCall \/ phase # "idle") => nodes' = nodes /\ nodesArray' = nodesArray]_vars

\* C30's case: execute has returned a failure after a work item assigned to
\* the context in place; the result's context shows the assignment and the
\* caller's object does not.
C30_Witness ==
    /\ phase = "done"
    /\ ~result.success
    /\ Len(nodes) = 2
    /\ result.context[0] = WrittenInPlace
    /\ callerContext = InitialContext

----------------------------------------------------------------------------
\* Claims about the cycle error

\* Some registered node lists a dependency more than once.
ListsDependencyTwice(n) ==
    Len(DependsOn(Get(n))) # Cardinality(DepsOf(n))

\* C31: for every registry whose dependencies all name registered nodes, in
\* which no node depends on itself and whose dependency relation is acyclic,
\* plan() returns a plan and raises no error, also when a dependsOn list names
\* a dependency more than once.
C31_CycleErrorOnlyForCycles ==
    (returned.op = "plan" /\ DepsRegistered /\ Acyclic
        /\ \A n \in Registered : ~SelfDependent(n)) =>
            /\ "thrown" \notin DOMAIN returned
            /\ "value" \in DOMAIN returned

\* plan() was the last call and threw the cycle error.
PlanThrewCycleError ==
    /\ returned.op = "plan"
    /\ "thrown" \in DOMAIN returned
    /\ returned.thrown.name = "Cycle detected"

\* C32: when plan() throws the cycle error, every node the error names lies on
\* a dependency cycle.
C32_NamedNodesLieOnCycles ==
    PlanThrewCycleError =>
        \A n \in Range(returned.thrown.cycle) : n \in TransitiveDeps(n)

----------------------------------------------------------------------------
\* Claims about the counters

\* C33: at every point of a run the blocked counter is the number of blocked
\* nodes, so a node is counted once however many nodes block it, and every
\* blocked node has the blocked record with zero attempts and zero duration.
C33_BlockedCountedOnce ==
    InRun =>
        /\ metrics.blockedNodes = Cardinality(blocked)
        /\ \A n \in blocked :
              /\ HasRecord(n, BlockedRecord)
              /\ metrics.nodes[n].attempts = 0
              /\ metrics.nodes[n].durationMs = ZeroMs

\* C33's case: node 3 depends on nodes 1 and 2 of the first batch, the gate of
\* node 1 returned false and node 2 failed under `skip-dependents`; node 3 is
\* blocked and the counter is 1.
C33_Witness ==
    /\ InRun
    /\ Len(nodes) = 3
    /\ DepsOf(3) = {1, 2}
    /\ 1 \in gatedOff
    /\ StrategyOf(2) = "skip-dependents" /\ FailedAllAttempts(2)
    /\ Reached(1) /\ Reached(2)
    /\ 3 \in blocked
    /\ metrics.blockedNodes = 1

----------------------------------------------------------------------------
\* Claims about an aborted batch

\* C34: when execute returns because a node failed under the `fail` strategy,
\* every node of that batch that was run has settled after its whole attempt
\* loop (a success, or as many failures as it is allowed attempts) and after
\* its cleanup, if it has one; the step that returns triggers no cancellation
\* token, and a token is only ever triggered by the timeout of its own attempt.
C34_FailStopsBatchProgressionOnly ==
    [][/\ (phase' = "done" /\ abortedBy' # 0) =>
            /\ \A n \in Range(runnable') :
                  /\ pc'[n] = "settled"
                  /\ \/ failures'[n] = AllowedAttempts(n)
                     \/ calls'[n]["execute"] = failures'[n] + 1
                  /\ Get(n).cleanup => calls'[n]["cleanup"] = 1
            /\ aborted' = aborted
       /\ \A tok \in aborted' \ aborted :
            /\ TimeoutConfigured(tok[1])
            /\ pc[tok[1]] = "execute"
            /\ tok[2] = attempts[tok[1]]
            /\ lastError'[tok[1]] = TimeoutError(tok[1])]_vars

\* C34's case: node 1 aborted the run; node 2 of the same batch, with the
\* `skip` strategy, settled after node 1 and made all its three attempts.
C34_Witness ==
    /\ phase = "done"
    /\ abortedBy = 1
    /\ 2 \in Range(runnable)
    /\ 2 \notin overtook
    /\ StrategyOf(2) = "skip"
    /\ failures[2] = 3

----------------------------------------------------------------------------
\* Claims about the counters of a result

\* The sum of the four outcome counters of metrics m.
CounterSum(m) == m.successfulNodes + m.failedNodes + m.skippedNodes + m.blockedNodes

\* C35: in every result with success = true the four counters add up to
\* totalNodes, and the nodes skipped by their gate or by validation are counted
\* in skippedNodes only: successfulNodes counts the nodes whose work item
\* succeeded and no others.
C35_CountersPartitionTheNodes ==
    (phase = "done" /\ result.success) =>
        /\ CounterSum(result.metrics) = result.metrics.totalNodes
        /\ result.metrics.skippedNodes = Cardinality(gatedOff \cup invalid)
        /\ result.metrics.successfulNodes =
              Cardinality({n \in Registered : HasStatus(n, "success") /\ n \in completed})

\* The number of outcome records of metrics m that carry the status st.
RecordsWith(m, st) == Cardinality({n \in DOMAIN m.nodes : m.nodes[n].status = st})

\* C36: in every returned result each of the four counters is the number of
\* outcome records with the matching status.
C36_CountersAgreeWithRecords ==
    phase = "done" =>
        LET m == result.metrics
        IN /\ m.successfulNodes = RecordsWith(m, "success")
           /\ m.failedNodes = RecordsWith(m, "failed")
           /\ m.skippedNodes = RecordsWith(m, "skipped")
           /\ m.blockedNodes = RecordsWith(m, "blocked")

----------------------------------------------------------------------------
\* Claims about work items that outlive their attempt

\* The work items of timed-out attempts that settle in the step.
LateSettlements == (working \ working') \cap aborted

\* C37: a step in which the work item of a timed-out attempt settles changes
\* neither the context, nor the metrics (records and counters), nor the sets of
\* completed, failed and blocked nodes, nor what runNode recorded for the node,
\* nor the result, at whatever point of the run it happens.
C37_LateSettlementIsDiscarded ==
    [][LateSettlements # {} =>
          /\ ctx' = ctx
          /\ metrics' = metrics
          /\ completed' = completed /\ failed' = failed /\ blocked' = blocked
          /\ settled' = settled
          /\ attempts' = attempts /\ lastError' = lastError /\ failures' = failures
          /\ pc' = pc
          /\ result' = result]_vars

\* C37's case: execute has returned, and the work item of a timed-out first
\* attempt of a node has settled while a later attempt of the node succeeded.
C37_Witness ==
    /\ phase = "done"
    /\ \E n \in Registered :
        /\ <<n, 1>> \in aborted
        /\ <<n, 1>> \notin working
        /\ HasStatus(n, "success")
        /\ result.context[n] = n

\* The work items that are executing although their node is not awaiting
\* them: the node has settled, or is sleeping, or is at a later attempt.
Stragglers ==
    {tok \in working : ~(pc[tok[1]] = "execute" /\ tok[2] = attempts[tok[1]])}

\* C38 as stated: no work item is executing unless its node is awaiting it, so
\* none of a node that has its terminal outcome, none beside a node of a later
\* batch, and none of an earlier attempt beside a retry.
C38_NoWorkOutlivesItsAttempt ==
    Stragglers = {}

\* C38 amended: the only work items that are executing without their node
\* awaiting them are those of attempts that timed out; every other work item
\* has settled before the node retries or reaches its terminal outcome.
C38_OnlyTimedOutWorkOutlivesItsAttempt ==
    Stragglers \subseteq aborted

\* C38's case: the first attempt of a node timed out and its work item is
\* still executing beside the work item of the second attempt, which the node
\* is awaiting.
C38_Witness ==
    \E n \in Registered :
        /\ <<n, 1>> \in working \cap aborted
        /\ <<n, 2>> \in working \ aborted
        /\ pc[n] = "execute"

----------------------------------------------------------------------------
\* Claims about termination

\* C39: when every gate check, validation and cleanup returns and every work
\* item settles or has a timeout, a run that has started eventually returns;
\* no node ever makes more than maxRetries + 1 attempts; and execute does not
\* return while a work item that has not timed out is executing.
C39_ExecuteEventuallyReturns ==
    /\ (phase = "running") ~> (phase = "done")
    /\ [](\A n \in Registered : attempts[n] <= AllowedAttempts(n))
    /\ [](phase = "done" => working \subseteq aborted)

\* C39's case: execute has returned although the work item of a timed-out
\* attempt never settled, the node having made all its attempts.
C39_Witness ==
    /\ phase = "done"
    /\ \E n \in Registered :
        /\ TimeoutConfigured(n)
        /\ <<n, 1>> \in working \cap aborted
        /\ attempts[n] = AllowedAttempts(n)

----------------------------------------------------------------------------
\* Claims about several runs

\* The two calls of execute, by their locals.
BothRuns == {Locals, otherRun}

\* The context a run has after merging, in the listed order, the patches of
\* the nodes in S.
RECURSIVE MergeInOrder(_, _, _, _)
MergeInOrder(order, i, S, c) ==
    IF i > Len(order) THEN c
    ELSE MergeInOrder(order, i + 1, S,
            IF order[i] \in S THEN mergeContext(c, PatchOf(order[i])) ELSE c)

\* What the run with locals R has blocked, counted and merged follows from what
\* happened in R alone: every blocked node depends on a node that R itself
\* gated off or saw fail; the counters count R's own sets; every record
\* belongs to a node R blocked or invoked; the context is the initial one
\* with the patches of the nodes R completed; and the result R returned holds
\* R's context and metrics and reports R's own failure.
RunStandsAlone(R) ==
    /\ \A n \in R.blocked :
        LET by == R.blockedBy[n]
        IN /\ by \in Registered
           /\ n \in TransitiveDependents(by)
           /\ \/ by \in R.gatedOff \cap R.completed
              \/ by \in R.failed /\ StrategyOf(by) = "skip-dependents"
    /\ \A by \in (R.gatedOff \cap R.completed)
                 \cup {f \in R.failed : StrategyOf(f) = "skip-dependents"} :
            TransitiveDependents(by) \subseteq R.blocked
    /\ R.metrics.blockedNodes = Cardinality(R.blocked)
    /\ R.metrics.failedNodes = Cardinality(R.failed)
    /\ R.metrics.skippedNodes = Cardinality(R.gatedOff \cup R.invalid)
    /\ R.metrics.successfulNodes = Cardinality(R.completed \ R.gatedOff)
    /\ \A n \in DOMAIN R.metrics.nodes :
        \/ n \in R.blocked /\ R.metrics.nodes[n] = BlockedRecord
        \/ n \in R.gatedOff /\ R.metrics.nodes[n] = SkippedRecord
        \/ /\ R.attempts[n] > 0
           /\ \/ R.metrics.nodes[n] = SuccessRecord(R.attempts[n])
              \/ /\ R.failures[n] > 0
                 /\ R.metrics.nodes[n] = FailedRecord(R.attempts[n], R.lastError[n])
    /\ R.phase # "idle" =>
        R.ctx = MergeInOrder(executionPlan.order, 1,
                    R.completed \ R.gatedOff, R.callerContext)
    /\ R.phase = "done" =>
        /\ R.result.context = R.ctx
        /\ R.result.metrics = R.metrics
        /\ R.result.success = (R.abortedBy = 0)
        /\ R.abortedBy # 0 => R.abortedBy \in R.failed /\ StrategyOf(R.abortedBy) = "fail"

\* The two runs were given the same context and their callbacks did the same.
SameInputs(R, S) ==
    /\ R.callerContext = S.callerContext
    /\ R.calls = S.calls
    /\ R.gatedOff = S.gatedOff
    /\ R.failures = S.failures

\* C40: two calls of execute on one engine, in sequence or interleaved, do not
\* affect each other: what each run blocks, counts, merges and returns follows
\* from its own callbacks' outcomes, and two runs whose callbacks did the same
\* return the same result, whatever the other run blocked, skipped or failed.
C40_RunsDoNotAffectEachOther ==
    /\ \A R \in BothRuns : RunStandsAlone(R)
    /\ (phase = "done" /\ otherRun.phase = "done" /\ SameInputs(Locals, otherRun)) =>
        /\ result = otherRun.result
        /\ blocked = otherRun.blocked

\* C40's case: one run has returned after node 1 failed in it and node 2 was
\* blocked, while the other run, suspended at its second batch, completed
\* node 1 and is running node 2.
C40_Witness ==
    /\ phase = "done"
    /\ 1 \in failed
    /\ 2 \in blocked
    /\ metrics.blockedNodes = 1
    /\ otherRun.phase = "running"
    /\ otherRun.batchIdx = 2
    /\ 1 \in otherRun.completed
    /\ otherRun.blocked = {}
    /\ otherRun.pc[2] = "execute"
    /\ otherRun.metrics.blockedNodes = 0
    /\ otherRun.metrics.failedNodes = 0

====
